---- MODULE Spec2Model ----
(***************************************************************************)
(* A model of vmrun, a supervisor for the bhyve hypervisor:                *)
(*   - the PCI slot allocator (src/spec/util.rs),                          *)
(*   - the specification compiler VmSpec::build (src/spec/mod.rs),         *)
(*   - the condition / assertion engine (src/vm/conditions.rs,             *)
(*     src/util/assertion.rs),                                             *)
(*   - the target overlay VmSpec::consume (src/spec/mod.rs),               *)
(*   - the parsers of memory sizes and PCI slots (src/util/mod.rs,         *)
(*     src/spec/mod.rs),                                                   *)
(*   - the bhyve argument formatters (src/vm/mod.rs,                       *)
(*     src/vm/emulation.rs),                                               *)
(*   - the supervisor loop vm_main and main (src/main.rs).                 *)
(***************************************************************************)
EXTENDS Integers, Sequences, FiniteSets, TLC

VARIABLES
    vmspec,        \* build(): the VmSpec document handed to build (&self)
    built,         \* build(): None before the call, Some(result) after it
    args,          \* main: the parsed command line (Arguments)
    vm,            \* main: the root VmSpec read from the configuration
    spec,          \* vm_main: `spec`, the current (mutable) VmSpec
    reboot_count,  \* vm_main: `reboot_count`
    next_target,   \* vm_main: `next_target`
    exit_code,     \* vm_main: `exit_code` (None while unassigned)
    vmrun,         \* vm_main: `vmrun` of the current iteration (None before build)
    emu_idx,       \* vm_main: position of the per-emulation recovery loop
    run_result,    \* vm_main: `run_result` of the current iteration
    host,          \* the host: tap interfaces, files, PCI devices, /dev/vmm node
    pc,            \* control location of main / vm_main / vm_run_session
    result,        \* value returned by vm_main (None while it runs)
    proc_exit,     \* exit status of the supervisor process (None while it runs)
    log,           \* per-iteration trace of observable effects
    sessions,      \* number of calls of vm_run_session so far
    codes,         \* exit codes of the hypervisor sessions so far, in order
    call,          \* a call of a pure function: None or Some([fn, arguments])
    retval,        \* its return value: None before the call, Some(value) after
    slot_gen,      \* a PciSlotGenerator under a sequence of calls (None: none built)
    issued         \* that generator's history: the list it was built with and
                   \* the slots it has returned so far, in order

vars == <<slot_gen, issued, call, retval, vmspec, built, args, vm, spec, reboot_count, next_target, exit_code,
          vmrun, emu_idx, run_result, host, pc, result, proc_exit, log,
          sessions, codes>>

mainVars == <<args, vm, spec, reboot_count, next_target, exit_code, vmrun,
              emu_idx, run_result, host, pc, result, proc_exit, log,
              sessions, codes>>

allocVars == <<slot_gen, issued>>

-----------------------------------------------------------------------------
(* Option<T> is a sequence of length 0 or 1.                               *)
None == <<>>
Some(x) == <<x>>
IsSome(o) == o # <<>>
IsNone(o) == o = <<>>
Unwrap(o) == o[1]

Range(s) == { s[i] : i \in 1..Len(s) }
Contains(s, x) == \E i \in 1..Len(s) : s[i] = x

-----------------------------------------------------------------------------
(* PciSlot {bus, slot, func}                                               *)
PciSlot(b, s, f) == [bus |-> b, slot |-> s, func |-> f]

LastSlot == 31
LastBus == 255

vec_exists(vec, cond(_)) == \E i \in 1..Len(vec) : cond(vec[i])

(* PciSlotGenerator: a record [bus, slot, skip]; every operation returns   *)
(* the generator after the call together with the returned Option<PciSlot>.*)
PciSlotGenerator_build(bus, slot, skip) == [bus |-> bus, slot |-> slot, skip |-> skip]

RECURSIVE next_slot_noskip(_)
next_slot_noskip(g) ==
    IF g.bus = LastBus /\ g.slot = LastSlot THEN [gen |-> g, ret |-> None]
    ELSE IF g.slot = LastSlot
         THEN next_slot_noskip([g EXCEPT !.bus = g.bus + 1, !.slot = 0])
         ELSE LET ret == PciSlot(g.bus, g.slot, 0)
                  g2 == [g EXCEPT !.slot = g.slot + 1]
              IN  [gen |-> g2, ret |-> Some(ret)]

RECURSIVE next_slot(_)
next_slot(g) ==
    IF g.bus = LastBus /\ g.slot = LastSlot THEN [gen |-> g, ret |-> None]
    ELSE IF g.slot = LastSlot
         THEN next_slot([g EXCEPT !.bus = g.bus + 1, !.slot = 0])
         ELSE LET ret == PciSlot(g.bus, g.slot, 0)
                  g2 == [g EXCEPT !.slot = g.slot + 1]
              IN  IF Contains(g.skip, ret)
                  THEN next_slot(g2)
                  ELSE [gen |-> g2, ret |-> Some(ret)]

RECURSIVE first_free_on_bus(_, _, _)
first_free_on_bus(skip, bus, s) ==
    IF Contains(skip, PciSlot(bus, s, 0))
    THEN IF s = LastSlot THEN None ELSE first_free_on_bus(skip, bus, s + 1)
    ELSE Some(PciSlot(bus, s, 0))

try_take_specific_bus(g, bus) ==
    IF g.bus > bus THEN [gen |-> g, ret |-> None]
    ELSE IF g.bus = bus THEN next_slot(g)
    ELSE LET r == first_free_on_bus(g.skip, bus, 0)
         IN  IF IsNone(r) THEN [gen |-> g, ret |-> None]
             ELSE [gen |-> [g EXCEPT !.skip = Append(g.skip, Unwrap(r))], ret |-> r]

try_take_specific_bus_slot_norecord(g, bus, slot) ==
    LET taken(s) == s.bus = bus /\ s.slot = slot
    IN  IF vec_exists(g.skip, taken) \/ g.bus > bus \/ (g.bus = bus /\ g.slot > slot)
        THEN [gen |-> g, ret |-> None]
        ELSE IF g.bus = bus /\ g.slot = slot THEN next_slot(g)
        ELSE [gen |-> g, ret |-> Some(PciSlot(bus, slot, 0))]

try_take_specific_bus_slot(g, bus, slot) ==
    LET taken(s) == s.bus = bus /\ s.slot = slot
    IN  IF vec_exists(g.skip, taken) \/ g.bus > bus \/ (g.bus = bus /\ g.slot > slot)
        THEN [gen |-> g, ret |-> None]
        ELSE IF g.bus = bus /\ g.slot = slot THEN next_slot(g)
        ELSE LET s == PciSlot(bus, slot, 0)
             IN  [gen |-> [g EXCEPT !.skip = Append(g.skip, s)], ret |-> Some(s)]

-----------------------------------------------------------------------------
(* Device declarations.  Every variant is a record of one shape; fields a  *)
(* variant does not have are None / "" / <<>>.                             *)
Device(device, name, tpe, path, src, lookup, rom, ports, w, h) ==
    [device |-> device, name |-> name, tpe |-> tpe, path |-> path, src |-> src,
     lookup |-> lookup, rom |-> rom, ports |-> ports, w |-> w, h |-> h]

VirtioNet(name, tpe) == Device("virtio-net", name, tpe, "", None, None, None, <<>>, None, None)
VirtioBlk(path) == Device("virtio-blk", "", "", path, None, None, None, <<>>, None, None)
VirtioConsole(ports) == Device("virtio-console", "", "", "", None, None, None, ports, None, None)
PciPassthruX(src, lookup, rom) == Device("passthru", "", "", "", src, lookup, rom, <<>>, None, None)
RawEmulatedPci == Device("raw", "", "", "", None, None, None, <<>>, None, None)
Framebuffer(w, h) == Device("fbuf", "", "", "", None, None, None, <<>>, w, h)
Xhci == Device("xhci", "", "", "", None, None, None, <<>>, None, None)

(* spec::decoding::Emulation {slot, fix, emulation}                        *)
Emulation(slot, fix, emulation) == [slot |-> slot, fix |-> fix, emulation |-> emulation]

(* vm::EmulatedPciDevice {slot, want_fix, emulation}                       *)
EmulatedPciDevice(slot, want_fix, emulation) ==
    [slot |-> slot, want_fix |-> want_fix, emulation |-> emulation]

(* PciPassthruX::to_pci_passthru: an explicit source, or a scan of the     *)
(* host's PCI enumeration for the looked-up identifier.                    *)
to_pci_passthru(x, h) ==
    IF IsSome(x.src) THEN Some(x)
    ELSE IF IsNone(x.lookup) THEN None
    ELSE IF \E d \in h.pci : d.id = Unwrap(x.lookup)
         THEN LET d == CHOOSE d \in h.pci : d.id = Unwrap(x.lookup)
              IN  Some([x EXCEPT !.src = Some(d.sel)])
         ELSE None

(* Emulation::to_vm_emu: Ok(device) or Err(InvalidUnit)                    *)
to_vm_emu(e, h) ==
    IF e.emulation.device = "passthru"
    THEN LET p == to_pci_passthru(e.emulation, h)
         IN  IF IsNone(p) THEN [err |-> "InvalidUnit", emu |-> None]
             ELSE [err |-> "", emu |-> p]
    ELSE [err |-> "", emu |-> Some(e.emulation)]

(* the slots explicitly specified in the configuration, in document order  *)
explicit_slots(emulations) ==
    LET withSlot == SelectSeq(emulations, LAMBDA e : IsSome(e.slot))
    IN  [i \in 1..Len(withSlot) |-> Unwrap(withSlot[i].slot)]

(* the loop `for emulation in &self.emulations` of build                   *)
RECURSIVE build_emulations(_, _, _, _, _)
build_emulations(g, emulations, i, emus, h) ==
    IF i > Len(emulations) THEN [err |-> "", gen |-> g, emus |-> emus]
    ELSE LET e == emulations[i]
             r == IF IsSome(e.slot) THEN [gen |-> g, ret |-> e.slot] ELSE next_slot(g)
         IN  IF IsNone(r.ret) THEN [err |-> "RunOutOfSlots", gen |-> r.gen, emus |-> emus]
             ELSE LET v == to_vm_emu(e, h)
                  IN  IF v.err # "" THEN [err |-> v.err, gen |-> r.gen, emus |-> emus]
                      ELSE build_emulations(r.gen, emulations, i + 1,
                               Append(emus, EmulatedPciDevice(Unwrap(r.ret), e.fix, Unwrap(v.emu))), h)

(* the `if let Some(graphic)` block of build                               *)
build_graphic(g, graphic, emus) ==
    IF IsNone(graphic) THEN [err |-> "", gen |-> g, emus |-> emus]
    ELSE LET gr == Unwrap(graphic)
             r1 == next_slot(g)
         IN  IF IsNone(r1.ret) THEN [err |-> "RunOutOfSlots", gen |-> r1.gen, emus |-> emus]
             ELSE LET emus1 == Append(emus, EmulatedPciDevice(Unwrap(r1.ret), FALSE,
                                                Framebuffer(gr.width, gr.height)))
                  IN  IF ~gr.xhci_table THEN [err |-> "", gen |-> r1.gen, emus |-> emus1]
                      ELSE LET r2 == next_slot(r1.gen)
                           IN  IF IsNone(r2.ret)
                               THEN [err |-> "RunOutOfSlots", gen |-> r2.gen, emus |-> emus1]
                               ELSE [err |-> "", gen |-> r2.gen,
                                     emus |-> Append(emus1, EmulatedPciDevice(Unwrap(r2.ret), FALSE, Xhci))]

BuildErr(e) == [err |-> e, run |-> None]

(* vm::LpcDevice: Bootrom(rom, varfile) and Com(n, device)                 *)
LpcDevice(kind, n, path, varfile) == [kind |-> kind, n |-> n, path |-> path, varfile |-> varfile]

default_bootopt ==
    [bootrom |-> "/usr/local/share/uefi-firmware/BHYVE_UEFI.fd", varfile |-> None]

(* the LPC devices build collects: the boot ROM, then com1..com4           *)
build_lpcs(s) ==
    LET bootopt == IF IsSome(s.bootopt) THEN Unwrap(s.bootopt) ELSE default_bootopt
        com(n, c) == IF IsSome(c) THEN <<LpcDevice("com", n, Unwrap(c), None)>> ELSE <<>>
    IN  <<LpcDevice("bootrom", 0, bootopt.bootrom, bootopt.varfile)>>
        \o com(1, s.com1) \o com(2, s.com2) \o com(3, s.com3) \o com(4, s.com4)

(* the LPC slot of build: the explicit one, else (0, 31)                   *)
build_lpc_slot(g, lpc_slot) ==
    IF IsSome(lpc_slot) THEN [gen |-> g, ret |-> lpc_slot]
    ELSE try_take_specific_bus_slot(g, 0, LastSlot)

(* VmSpec::build: Ok(VmRun) is [err |-> "", run |-> Some(vmrun)],          *)
(* Err(e) is [err |-> e, run |-> None].                                    *)
build(s, h) ==
    LET slots_taken == explicit_slots(s.emulations)
                       \o (IF IsSome(s.lpc_slot) THEN <<Unwrap(s.lpc_slot)>> ELSE <<>>)
        g0 == PciSlotGenerator_build(0, 0, slots_taken)
        hb == try_take_specific_bus(g0, 0)
    IN  IF IsNone(hb.ret) THEN BuildErr("HostbridgeSlotNotSatisfy")
        ELSE LET lpc == build_lpc_slot(hb.gen, s.lpc_slot)
             IN  IF IsNone(lpc.ret) THEN BuildErr("LpcSlotNotSatisfy")
                 ELSE LET be == build_emulations(lpc.gen, s.emulations, 1, <<>>, h)
                      IN  IF be.err # "" THEN BuildErr(be.err)
                          ELSE LET bg == build_graphic(be.gen, s.graphic, be.emus)
                               IN  IF bg.err # "" THEN BuildErr(bg.err)
                                   ELSE [err |-> "",
                                         run |-> Some([hostbridge_slot |-> Unwrap(hb.ret),
                                                       lpc_slot |-> Unwrap(lpc.ret),
                                                       lpc_devices |-> build_lpcs(s),
                                                       emulations |-> bg.emus,
                                                       name |-> s.name,
                                                       cpu |-> s.cpu,
                                                       mem_kb |-> s.mem.kb,
                                                       hostbridge_brand |-> s.hostbridge,
                                                       uuid |-> s.uuid,
                                                       gdb |-> s.gdb,
                                                       utc_clock |-> s.utc_clock,
                                                       yield_on_hlt |-> s.yield_on_hlt,
                                                       generate_acpi |-> s.generate_acpi,
                                                       wire_guest_mem |-> s.wire_guest_mem,
                                                       force_msi |-> s.force_msi,
                                                       disable_mptable_gen |-> s.disable_mptable_gen,
                                                       power_off_destroy_vm |-> s.power_off_destroy_vm])]

-----------------------------------------------------------------------------
(* VmSpec documents.  targets maps every name of TargetNames to            *)
(* None (no such key) or Some(VmSpecMod).                                  *)
TargetNames == {"default", "test", "next"}

NoTargets == [n \in TargetNames |-> None]

CpuSpec(threads, cores, sockets) ==
    [threads |-> threads, cores |-> cores, sockets |-> sockets]

MemorySpec(kb) == [kb |-> kb]

default_hostbridge == "hostbridge"

(* a document that sets cpu, mem, name and the seven arguments; every      *)
(* other field has the value deserialization gives it when absent          *)
VmSpec(name, emulations, lpc_slot, graphic, next, script, targets) ==
    [name |-> name, emulations |-> emulations, lpc_slot |-> lpc_slot,
     graphic |-> graphic, next_target |-> next, post_start_script |-> script,
     targets |-> targets, bootopt |-> None,
     com1 |-> None, com2 |-> None, com3 |-> None, com4 |-> None,
     cpu |-> CpuSpec(1, 1, 1), mem |-> MemorySpec(1048576),
     hostbridge |-> default_hostbridge, gdb |-> None, uuid |-> None,
     utc_clock |-> TRUE, yield_on_hlt |-> TRUE, generate_acpi |-> TRUE,
     wire_guest_mem |-> FALSE, force_msi |-> FALSE, disable_mptable_gen |-> FALSE,
     power_off_destroy_vm |-> FALSE, extra_options |-> None]

GraphicOption(xhci_table, width, height) ==
    [xhci_table |-> xhci_table, width |-> width, height |-> height]

(* the host as the probes see it                                           *)
(*   taps: tap interfaces, opened: taps opened by a process,               *)
(*   files: regular files, nodes: other file-system entries,               *)
(*   pci: host PCI devices, vmm: /dev/vmm/<name> exists,                   *)
(*   destroying: a spawned `bhyvectl --destroy` has not finished yet       *)
Host(taps, opened, files, nodes, pci, vmm) ==
    [taps |-> taps, opened |-> opened, files |-> files, nodes |-> nodes,
     pci |-> pci, vmm |-> vmm, destroying |-> FALSE]

PciDevice(sel, device_name, header_type, id) ==
    [sel |-> sel, device_name |-> device_name, header_type |-> header_type, id |-> id]

BuildHost ==
    Host({}, {}, {}, {}, {PciDevice("pci0:3:0:0", "em0", 0, "0x80862725")}, FALSE)

-----------------------------------------------------------------------------
(* Inputs of the build specification.                                      *)
MaxEmus == 3

ExplicitSlotChoices ==
    {PciSlot(0, 0, 0), PciSlot(0, 1, 0), PciSlot(0, 1, 1), PciSlot(0, 31, 0), PciSlot(1, 0, 0)}

BuildEntries ==
    {Emulation(s, FALSE, RawEmulatedPci) : s \in {None} \cup {Some(x) : x \in ExplicitSlotChoices}}
    \cup {Emulation(None, FALSE, PciPassthruX(None, None, None))}

SeqsUpTo(S, n) == UNION {[1..k -> S] : k \in 0..n}

BuildGraphics ==
    {None, Some(GraphicOption(FALSE, None, None)), Some(GraphicOption(TRUE, None, None))}

BuildLpcSlots ==
    {None, Some(PciSlot(0, 31, 0)), Some(PciSlot(0, 1, 0)), Some(PciSlot(1, 0, 0))}

SmallDocs ==
    {VmSpec("t", emus, lpc, gr, None, None, NoTargets) :
        emus \in SeqsUpTo(BuildEntries, MaxEmus), lpc \in BuildLpcSlots, gr \in BuildGraphics}

(* documents reserving slots 0..30 of bus 0, all of them or all but one,   *)
(* followed by `extra` declarations without a slot                         *)
DenseEmulations(missing, extra) ==
    LET keep == SelectSeq([i \in 1..LastSlot |-> i - 1], LAMBDA k : k # missing)
    IN  [i \in 1..Len(keep) |-> Emulation(Some(PciSlot(0, keep[i], 0)), FALSE, RawEmulatedPci)]
        \o [i \in 1..extra |-> Emulation(None, FALSE, RawEmulatedPci)]

DenseDocs ==
    {VmSpec("t", DenseEmulations(m, x), lpc, None, None, None, NoTargets) :
        m \in (-1)..(LastSlot - 1), x \in 0..1, lpc \in {None, Some(PciSlot(0, 31, 0))}}

(* documents with a slot or function number beyond those of a PCI bus     *)
RangeDocs ==
    {VmSpec("t", <<Emulation(Some(x), FALSE, RawEmulatedPci)>>, None, None, None, None, NoTargets) :
        x \in {PciSlot(0, 40, 0), PciSlot(0, 5, 9)}}
    \cup {VmSpec("t", <<>>, Some(PciSlot(0, 32, 0)), None, None, None, NoTargets)}

BuildDocs == SmallDocs \cup DenseDocs \cup RangeDocs

-----------------------------------------------------------------------------
(* Specification of build(): a document is chosen, build is applied once.  *)
(* no generator is under test                                              *)
AllocIdle == slot_gen = None /\ issued = None

MainIdle ==
    /\ args = None /\ vm = None /\ spec = None /\ reboot_count = 0
    /\ next_target = None /\ exit_code = None /\ vmrun = None /\ emu_idx = 0
    /\ run_result = None /\ host = BuildHost /\ pc = "build" /\ result = None
    /\ proc_exit = None /\ log = <<>> /\ sessions = 0 /\ codes = <<>>

InitBuild ==
    /\ vmspec \in BuildDocs
    /\ built = None
    /\ call = None /\ retval = None
    /\ MainIdle /\ AllocIdle

DoBuild ==
    /\ pc = "build"
    /\ built = None
    /\ built' = Some(build(vmspec, host))
    /\ UNCHANGED <<allocVars, call, retval, vmspec, mainVars>>

NextBuild == DoBuild

SpecBuild == InitBuild /\ [][NextBuild]_vars

-----------------------------------------------------------------------------
(* Properties of build().                                                  *)
BuildOk == IsSome(built) /\ Unwrap(built).err = ""
BuiltRun == Unwrap(Unwrap(built).run)

(* all PCI slots of a compiled VmRun: hostbridge, LPC, then the emulations *)
AllSlots(run) ==
    <<run.hostbridge_slot, run.lpc_slot>>
    \o [i \in 1..Len(run.emulations) |-> run.emulations[i].slot]

NoDuplicates(seq) == \A i, j \in 1..Len(seq) : i # j => seq[i] # seq[j]

(* C1: whenever build() succeeds, the (bus, slot, func) triples of the     *)
(* hostbridge, the LPC bridge and every compiled emulation are pairwise    *)
(* distinct, for any explicit emulation slots and explicit lpc_slot.       *)
C1_SlotsPairwiseDistinct == BuildOk => NoDuplicates(AllSlots(BuiltRun))

(* C2: whenever build() succeeds, the hostbridge slot and the LPC slot are *)
(* both on bus 0, whatever explicit slots are reserved on bus 0.           *)
C2_BridgesOnBusZero ==
    BuildOk => (BuiltRun.hostbridge_slot.bus = 0 /\ BuiltRun.lpc_slot.bus = 0)

(* C3: with no lpc_slot and a declaration at the explicit slot 0:31,       *)
(* build() succeeds with the hostbridge at 0:0:0, the LPC bridge at 0:1:0  *)
(* and the declared device at 0:31:0.                                      *)
S2Doc ==
    VmSpec("t", <<Emulation(Some(PciSlot(0, 31, 0)), FALSE, RawEmulatedPci)>>,
           None, None, None, None, NoTargets)

C3_LpcFallsBackWhenSlot31Taken ==
    (vmspec = S2Doc /\ IsSome(built)) =>
        /\ BuildOk
        /\ BuiltRun.hostbridge_slot = PciSlot(0, 0, 0)
        /\ BuiltRun.lpc_slot = PciSlot(0, 1, 0)
        /\ BuiltRun.emulations[1].slot = PciSlot(0, 31, 0)

(* C4: every declaration with an explicit slot is compiled, at the same    *)
(* list position, with exactly that slot, and every declaration without a  *)
(* slot gets a slot equal to no explicit slot of the document.             *)
DocExplicitSlots(s) ==
    Range(explicit_slots(s.emulations))
    \cup (IF IsSome(s.lpc_slot) THEN {Unwrap(s.lpc_slot)} ELSE {})

C4_ExplicitSlotsCarried ==
    BuildOk =>
        \A i \in 1..Len(vmspec.emulations) :
            /\ i <= Len(BuiltRun.emulations)
            /\ IF IsSome(vmspec.emulations[i].slot)
               THEN BuiltRun.emulations[i].slot = Unwrap(vmspec.emulations[i].slot)
               ELSE BuiltRun.emulations[i].slot \notin DocExplicitSlots(vmspec)

(* a successful build of a document that mixes an explicit slot the        *)
(* allocator would otherwise issue (0:1:0) with a slot-less declaration    *)
C4_Witness ==
    /\ BuildOk
    /\ \E i, j \in 1..Len(vmspec.emulations) :
          /\ vmspec.emulations[i].slot = Some(PciSlot(0, 1, 0))
          /\ IsNone(vmspec.emulations[j].slot)
          /\ BuiltRun.emulations[j].slot = PciSlot(0, 2, 0)

-----------------------------------------------------------------------------
(* Assertion trees (util/assertion.rs).  One record shape for the three    *)
(* variants; repair is the closure of a Recoverable, as a command record.  *)
Fatal(scope, why) ==
    [kind |-> "Fatal", scope |-> scope, why |-> why, repair |-> None, items |-> <<>>]
Recoverable(scope, why, repair) ==
    [kind |-> "Recoverable", scope |-> scope, why |-> why, repair |-> Some(repair), items |-> <<>>]
Container(items) ==
    [kind |-> "Container", scope |-> "", why |-> "", repair |-> None, items |-> items]

(* a repair closure: the external command it runs and its argument         *)
Repair(op, arg) == [op |-> op, arg |-> arg]

RECURSIVE is_recoverable_any(_)
is_recoverable_any(a) ==
    IF a.kind = "Fatal" THEN FALSE
    ELSE IF a.kind = "Recoverable" THEN TRUE
    ELSE \E i \in 1..Len(a.items) : is_recoverable_any(a.items[i][2])

(* Assertion::is_recoverable: the loop over a Container returns false at   *)
(* the first child that is not recoverable, true after the last            *)
RECURSIVE is_recoverable(_)
is_recoverable(a) ==
    IF a.kind = "Fatal" THEN FALSE
    ELSE IF a.kind = "Recoverable" THEN TRUE
    ELSE \A i \in 1..Len(a.items) : is_recoverable(a.items[i][2])

(* Assertion::recover: the repair closures it invokes, in call order       *)
RECURSIVE recover(_)
RECURSIVE recover_list(_, _)
RECURSIVE recover_list_reversed(_, _)
recover_list_reversed(items, i) ==
    IF i > Len(items) THEN <<>>
    ELSE recover_list_reversed(items, i + 1) \o recover(items[i][2])

recover_list(items, i) ==
    IF i > Len(items) THEN <<>>
    ELSE recover(items[i][2]) \o recover_list(items, i + 1)
recover(a) ==
    IF a.kind = "Fatal" THEN <<>>
    ELSE IF a.kind = "Recoverable" THEN <<Unwrap(a.repair)>>
    ELSE recover_list(a.items, 1)

(* Assertion::print tags every leaf "[fatal]" or "[recoverable]": does the *)
(* printed tree show a "[fatal]" line                                      *)
RECURSIVE print_shows_fatal(_)
print_shows_fatal(a) ==
    IF a.kind = "Fatal" THEN TRUE
    ELSE IF a.kind = "Recoverable" THEN FALSE
    ELSE \E i \in 1..Len(a.items) : print_shows_fatal(a.items[i][2])

-----------------------------------------------------------------------------
(* Conditions (vm/conditions.rs).  check returns None for Ok(()) and       *)
(* Some(assertion) for Err(assertion), against the host h.                 *)
NoCond_check == None

(* FsEntity::exists for File / Node (must be a regular file) and FsItem    *)
FsEntity_exists(kind, path, h) ==
    IF kind = "FsItem" THEN path \in h.files \cup h.nodes
    ELSE path \in h.files

Existence_check(kind, path, h) ==
    IF FsEntity_exists(kind, path, h) THEN None
    ELSE Some(Fatal("exists", "does not exist"))

Absence_check(kind, path, h) ==
    IF FsEntity_exists(kind, path, h)
    THEN Some(Fatal("absence", "Resource alreday exists"))
    ELSE None

(* Condition::name of NetworkBackendAvailable                              *)
NetworkBackendAvailable_name == "network-backend-available"

NetworkBackendAvailable_check(backend, name, h) ==
    IF backend = "tap"
    THEN IF name \in h.taps
         THEN IF name \in h.opened
              THEN Some(Fatal(NetworkBackendAvailable_name,
                              "Tap device exists but is already opened by another process"))
              ELSE None
         ELSE Some(Recoverable("tap-iface", "create-tap",
                               Repair("ifconfig tap create name", NetworkBackendAvailable_name)))
    ELSE None

ValidPassthruDevice_check(sel, h) ==
    IF ~(\E d \in h.pci : d.sel = sel) THEN Some(Fatal(sel, "Invalid PCI device"))
    ELSE LET dev == CHOOSE d \in h.pci : d.sel = sel
         IN  IF dev.header_type # 0
             THEN Some(Fatal(sel, "cannot passthru non-endpoint device"))
             ELSE IF dev.device_name = "ppt" THEN None
             ELSE Some(Recoverable(sel, "pci-attach-ppt", Repair("force_passthru", sel)))

ValidResolution_check(w, h) ==
    IF IsSome(h) /\ IsSome(w)
    THEN IF Unwrap(w) > 1920 \/ Unwrap(h) > 1200
         THEN Some(Fatal("fbuf_resolution", "Maximum resolution is 1920x1200"))
         ELSE IF Unwrap(w) < 640 \/ Unwrap(h) < 480
              THEN Some(Fatal("fbuf_resolution", "Minimum resolution is 640x480"))
              ELSE None
    ELSE IF IsNone(h) /\ IsNone(w) THEN None
    ELSE Some(Fatal("fbuf_resolution", "w and h must either both specified or both unspecified"))

(* NestedConditions::check over the children's results <<name, result>>    *)
NestedConditions_check(children) ==
    LET failed == SelectSeq(children, LAMBDA c : IsSome(c[2]))
        v == [i \in 1..Len(failed) |-> <<failed[i][1], Unwrap(failed[i][2])>>]
    IN  IF v = <<>> THEN None ELSE Some(Container(v))

(* BhyveDev::preconditions().check() of each device variant                *)
BhyveDev_check(d, h) ==
    IF d.device = "virtio-net" THEN NetworkBackendAvailable_check(d.tpe, d.name, h)
    ELSE IF d.device = "virtio-blk" THEN Existence_check("File", d.path, h)
    ELSE IF d.device = "virtio-console"
         THEN NestedConditions_check(
                  [i \in 1..Len(d.ports) |-> <<"absence", Absence_check("FsItem", d.ports[i], h)>>])
    ELSE IF d.device = "passthru"
         THEN NestedConditions_check(
                  <<<<Unwrap(d.src), ValidPassthruDevice_check(Unwrap(d.src), h)>>>>
                  \o (IF IsSome(d.rom)
                      THEN <<<<"exists", Existence_check("File", Unwrap(d.rom), h)>>>>
                      ELSE <<>>))
    ELSE IF d.device = "fbuf" THEN ValidResolution_check(d.w, d.h)
    ELSE NoCond_check

-----------------------------------------------------------------------------
(* The precondition trees the supervisor checks.                           *)

(* EmulatedPciDevice::preconditions().check()                              *)
EmulatedPciDevice_check(e, h) == BhyveDev_check(e.emulation, h)

LpcSlotAssignment_check(slot) ==
    IF slot.bus # 0 THEN Some(Fatal("lpc_bus", "Lpc device can only configure on bus 0"))
    ELSE None

ComDeviceKinds == {"stdio", "/dev/nmdm0A"}

LpcDevice_check(l, h) ==
    IF l.kind = "bootrom"
    THEN NestedConditions_check(
             <<<<"exists", Existence_check("File", l.path, h)>>>>
             \o (IF IsSome(l.varfile)
                 THEN <<<<"exists", Existence_check("File", Unwrap(l.varfile), h)>>>>
                 ELSE <<>>))
    ELSE IF l.path \in ComDeviceKinds /\ l.n \in 1..4 THEN None
    ELSE Some(Fatal("com", "invalid com device"))

(* VmRun::preconditions().check(): Container "vm" of "vpci" and "lpc"      *)
VmRun_check(run, h) ==
    LET vpci == [i \in 1..Len(run.emulations) |->
                    <<run.emulations[i].emulation.device,
                      EmulatedPciDevice_check(run.emulations[i], h)>>]
        lpc == <<<<"lpc_bus", LpcSlotAssignment_check(run.lpc_slot)>>>>
               \o [i \in 1..Len(run.lpc_devices) |->
                      <<run.lpc_devices[i].kind, LpcDevice_check(run.lpc_devices[i], h)>>]
    IN  NestedConditions_check(<<<<"vpci", NestedConditions_check(vpci)>>,
                                 <<"lpc", NestedConditions_check(lpc)>>>>)

(* VmRun::ephemeral_objects(): the port nodes of the virtio-consoles       *)
RECURSIVE ephemeral_objects_from(_, _)
ephemeral_objects_from(emus, i) ==
    IF i > Len(emus) THEN <<>>
    ELSE (IF emus[i].emulation.device = "virtio-console" THEN emus[i].emulation.ports ELSE <<>>)
         \o ephemeral_objects_from(emus, i + 1)

ephemeral_objects(run) == ephemeral_objects_from(run.emulations, 1)

(* the effect of a repair closure on the host                              *)
RepairOps == {"ifconfig tap create name", "force_passthru"}

apply_repair(h, r) ==
    IF r.op = "ifconfig tap create name"
    THEN [h EXCEPT !.taps = @ \cup {r.arg}]
    ELSE [h EXCEPT !.pci = {IF d.sel = r.arg THEN [d EXCEPT !.device_name = "ppt"] ELSE d : d \in @}]

RECURSIVE apply_repairs(_, _, _)
apply_repairs(h, rs, i) ==
    IF i > Len(rs) THEN h ELSE apply_repairs(apply_repair(h, rs[i]), rs, i + 1)

-----------------------------------------------------------------------------
(* Overlays (spec/mod.rs).                                                 *)
VmSpecMod(emulations, graphic, next, script) ==
    [emulations |-> emulations, graphic |-> graphic, next_target |-> next,
     post_start_script |-> script, bootopt |-> None,
     com1 |-> None, com2 |-> None, com3 |-> None, com4 |-> None,
     cpu |-> None, mem |-> None, gdb |-> None,
     utc_clock |-> None, yield_on_hlt |-> None, generate_acpi |-> None,
     wire_guest_mem |-> None, force_msi |-> None, disable_mptable_gen |-> None,
     extra_options |-> None]

replace_always(mine, theirs) == theirs

(* replace_if_some!(self, patch, ?field): both sides are Options           *)
replace_if_some(mine, theirs) == IF IsSome(theirs) THEN theirs ELSE mine

(* replace_if_some!(self, patch, field): the patch side is an Option       *)
replace_if_some_value(mine, theirs) == IF IsSome(theirs) THEN Unwrap(theirs) ELSE mine

extend_front(v, other) == other \o v

(* Vec::extend (line 186)                                                  *)
extend(v, other) == v \o other

consume(s, patch) ==
    [s EXCEPT !.cpu = replace_if_some_value(@, patch.cpu),
              !.mem = replace_if_some_value(@, patch.mem),
              !.bootopt = replace_if_some(@, patch.bootopt),
              !.gdb = replace_if_some(@, patch.gdb),
              !.com1 = replace_if_some(@, patch.com1),
              !.com2 = replace_if_some(@, patch.com2),
              !.com3 = replace_if_some(@, patch.com3),
              !.com4 = replace_if_some(@, patch.com4),
              !.utc_clock = replace_if_some_value(@, patch.utc_clock),
              !.yield_on_hlt = replace_if_some_value(@, patch.yield_on_hlt),
              !.generate_acpi = replace_if_some_value(@, patch.generate_acpi),
              !.wire_guest_mem = replace_if_some_value(@, patch.wire_guest_mem),
              !.force_msi = replace_if_some_value(@, patch.force_msi),
              !.disable_mptable_gen = replace_if_some_value(@, patch.disable_mptable_gen),
              !.extra_options = replace_if_some(@, patch.extra_options),
              !.next_target = replace_if_some(@, patch.next_target),
              !.post_start_script = replace_if_some(@, patch.post_start_script),
              !.graphic = replace_if_some(@, patch.graphic),
              !.emulations = extend(@, patch.emulations)]

has_target(s, target) == target \in TargetNames /\ IsSome(s.targets[target])

consume_target_lenient(s, target) ==
    IF ~has_target(s, target) THEN [err |-> "", spec |-> s]
    ELSE [err |-> "", spec |-> consume(s, Unwrap(s.targets[target]))]

(* consume_target: Ok(spec') or Err(ProfileNotFound)                       *)
consume_target(s, target) ==
    IF ~has_target(s, target) THEN [err |-> "ProfileNotFound", spec |-> s]
    ELSE [err |-> "", spec |-> consume(s, Unwrap(s.targets[target]))]

-----------------------------------------------------------------------------
(* The supervisor (main.rs).                                               *)
Arguments(target, no_reboot, force, dry_run, debug, reboot_cnt, reboot_on,
          vm_pid_file, panic_on_failed_cleanup, no_requirement_check) ==
    [target |-> target, no_reboot |-> no_reboot, force |-> force, dry_run |-> dry_run,
     debug |-> debug, reboot_count |-> reboot_cnt, reboot_on |-> reboot_on,
     vm_pid_file |-> vm_pid_file, panic_on_failed_cleanup |-> panic_on_failed_cleanup,
     no_requirement_check |-> no_requirement_check]

(* Result<i32, VmRunError>                                                 *)
Ok(code) == [ok |-> TRUE, code |-> code, err |-> ""]
Err(e) == [ok |-> FALSE, code |-> 0, err |-> e]

(* an observable effect of the supervisor, tagged with its loop iteration  *)
Event(ev, arg) == [ev |-> ev, arg |-> arg, iter |-> reboot_count]

Run == Unwrap(vmrun)

skips_requirements_never(a) == FALSE

(* line 205: `if !args.no_requirement_check`                               *)
skips_requirements(a) == a.no_requirement_check

(* lines 186-205: apply the next target, take the next one, compile        *)
LoopTop ==
    /\ pc = "loop"
    /\ LET ct == IF IsNone(next_target) THEN [err |-> "", spec |-> spec]
                 ELSE IF Unwrap(next_target) = "default" /\ ~has_target(spec, "default")
                      THEN [err |-> "", spec |-> vm]
                      ELSE consume_target(spec, Unwrap(next_target))
           b == build(ct.spec, host)
       IN  IF ct.err # ""
           THEN /\ result' = Some(Err(ct.err))
                /\ pc' = "returned"
                /\ UNCHANGED <<spec, next_target, vmrun, emu_idx>>
           ELSE /\ spec' = ct.spec
                /\ next_target' = ct.spec.next_target
                /\ IF b.err # ""
                   THEN /\ result' = Some(Err(b.err))
                        /\ pc' = "returned"
                        /\ UNCHANGED <<vmrun, emu_idx>>
                   ELSE /\ vmrun' = b.run
                        /\ emu_idx' = 1
                        /\ result' = result
                        /\ pc' = IF skips_requirements(args) THEN "session"
                                 ELSE IF Len(Unwrap(b.run).emulations) = 0 THEN "check"
                                 ELSE "recover"
    /\ UNCHANGED <<allocVars, call, retval, vmspec, built, args, vm, reboot_count, exit_code, run_result, host,
                   proc_exit, log, sessions, codes>>

(* lines 210-213: the prompt is reached only when the assertion is         *)
(* recoverable and neither want_fix nor --force is set                     *)
prompt_asked(assertion, want_fix, force) ==
    is_recoverable(assertion) /\ ~want_fix /\ ~force

recover_decision_any(assertion, want_fix, force, answer) ==
    want_fix \/ force \/ answer

recover_decision(assertion, want_fix, force, answer) ==
    is_recoverable(assertion) /\ (want_fix \/ force \/ answer)

(* lines 207-218: one pass of the per-emulation recovery loop              *)
RecoverStep ==
    /\ pc = "recover"
    /\ LET e == Run.emulations[emu_idx]
           a == EmulatedPciDevice_check(e, host)
       IN  IF IsNone(a)
           THEN UNCHANGED <<host, log>>
           ELSE \E answer \in (IF prompt_asked(Unwrap(a), e.want_fix, args.force)
                                THEN BOOLEAN ELSE {FALSE}) :
                   LET asked == IF prompt_asked(Unwrap(a), e.want_fix, args.force)
                                THEN <<Event("ask_yesno", IF answer THEN "y" ELSE "n")>>
                                ELSE <<>>
                       rs == IF recover_decision(Unwrap(a), e.want_fix, args.force, answer)
                             THEN recover(Unwrap(a)) ELSE <<>>
                   IN  /\ host' = apply_repairs(host, rs, 1)
                       /\ log' = log \o asked
                                     \o [i \in 1..Len(rs) |-> Event(rs[i].op, rs[i].arg)]
    /\ emu_idx' = emu_idx + 1
    /\ pc' = IF emu_idx = Len(Run.emulations) THEN "check" ELSE "recover"
    /\ UNCHANGED <<allocVars, call, retval, vmspec, built, args, vm, spec, reboot_count, next_target, exit_code,
                   vmrun, run_result, result, proc_exit, sessions, codes>>

precondition_aborts_never(a) == FALSE

(* lines 221-231: the full tree aborts the run only when not recoverable   *)
precondition_aborts(a) == IsSome(a) /\ ~is_recoverable(Unwrap(a))

(* lines 220-231: the check of the whole VmRun                              *)
FullCheck ==
    /\ pc = "check"
    /\ LET a == VmRun_check(Run, host)
       IN  /\ log' = Append(log, Event("check", IF IsNone(a) THEN "ok"
                                                 ELSE IF print_shows_fatal(Unwrap(a)) THEN "fatal"
                                                 ELSE "recoverable"))
           /\ IF precondition_aborts(a)
              THEN /\ result' = Some(Err("PreconditionFailure"))
                   /\ pc' = "returned"
              ELSE /\ result' = result
                   /\ pc' = "session"
    /\ UNCHANGED <<allocVars, call, retval, vmspec, built, args, vm, spec, reboot_count, next_target, exit_code,
                   vmrun, emu_idx, run_result, host, proc_exit, sessions, codes>>

-----------------------------------------------------------------------------
(* vm_run_session (lines 122-182), one action per blocking step.           *)
MaxSessions == 4

ExitCodes == {0, 1, 3}

(* line 134: the session only prints the invocation                        *)
prints_only(a) == a.dry_run \/ a.debug

(* lines 127-156: dry run, PID file, bhyvectl --destroy (spawned, not      *)
(* waited for)                                                             *)
SessionStart ==
    /\ pc = "session"
    /\ sessions < MaxSessions
    /\ sessions' = sessions + 1
    /\ IF prints_only(args)
       THEN /\ run_result' = Some(Ok(0))
            /\ codes' = Append(codes, 0)
            /\ log' = Append(log, Event("print argv", ""))
            /\ pc' = "after"
            /\ host' = host
       ELSE \E opened \in (IF IsSome(args.vm_pid_file) THEN BOOLEAN ELSE {TRUE}) :
               IF ~opened
               THEN /\ run_result' = Some(Err("IoError"))
                    /\ log' = Append(log, Event("open_pid_file", "failed"))
                    /\ pc' = "after"
                    /\ UNCHANGED <<host, codes>>
               ELSE /\ run_result' = None
                    /\ pc' = "spawn"
                    /\ codes' = codes
                    /\ IF host.vmm /\ args.force
                       THEN /\ host' = [host EXCEPT !.destroying = TRUE]
                            /\ log' = log
                                 \o (IF IsSome(args.vm_pid_file)
                                     THEN <<Event("open_pid_file", "ok")>> ELSE <<>>)
                                 \o <<Event("bhyvectl --destroy", Run.name)>>
                       ELSE /\ host' = host
                            /\ log' = log
                                 \o (IF IsSome(args.vm_pid_file)
                                     THEN <<Event("open_pid_file", "ok")>> ELSE <<>>)
    /\ UNCHANGED <<allocVars, call, retval, vmspec, built, args, vm, spec, reboot_count, next_target, exit_code,
                   vmrun, emu_idx, result, proc_exit>>

(* the spawned `bhyvectl --destroy` finishes: the /dev/vmm node is gone    *)
DestroyFinish ==
    /\ host.destroying
    /\ pc \notin {"exited", "panicked"}
    /\ host' = [host EXCEPT !.destroying = FALSE, !.vmm = FALSE]
    /\ UNCHANGED <<allocVars, call, retval, vmspec, built, args, vm, spec, reboot_count, next_target, exit_code,
                   vmrun, emu_idx, run_result, pc, result, proc_exit, log, sessions, codes>>

(* lines 158-168: spawn the hypervisor, then write its pid                 *)
SpawnHypervisor ==
    /\ pc = "spawn"
    /\ \E written \in (IF IsSome(args.vm_pid_file) THEN BOOLEAN ELSE {TRUE}) :
          /\ log' = Append(log, Event("spawn bhyve", IF host.destroying THEN "destroying" ELSE ""))
          /\ host' = [host EXCEPT !.vmm = TRUE]
          /\ IF written
             THEN /\ pc' = "poststart"
                  /\ run_result' = run_result
             ELSE /\ pc' = "after"
                  /\ run_result' = Some(Err("IoError"))
    /\ UNCHANGED <<allocVars, call, retval, vmspec, built, args, vm, spec, reboot_count, next_target, exit_code,
                   vmrun, emu_idx, result, proc_exit, sessions, codes>>

(* lines 170-178: the post-start script of the `spec` parameter, which     *)
(* vm_main binds to the root document `vm` (line 234)                      *)
PostStartScript ==
    /\ pc = "poststart"
    /\ log' = IF IsSome(vm.post_start_script)
              THEN Append(log, Event("post_start_script", Unwrap(vm.post_start_script)))
              ELSE log
    /\ pc' = "wait"
    /\ UNCHANGED <<allocVars, call, retval, vmspec, built, args, vm, spec, reboot_count, next_target, exit_code,
                   vmrun, emu_idx, run_result, host, result, proc_exit, sessions, codes>>

(* lines 180-181: the hypervisor exits; it may leave the port nodes of     *)
(* its virtio-consoles behind                                              *)
HypervisorExit ==
    /\ pc = "wait"
    /\ \E code \in ExitCodes, left \in BOOLEAN :
          /\ left => ephemeral_objects(Run) # <<>>
          /\ run_result' = Some(Ok(code))
          /\ codes' = Append(codes, code)
          /\ host' = [host EXCEPT !.nodes = IF left THEN @ \cup Range(ephemeral_objects(Run))
                                                   ELSE @]
          /\ log' = Append(log, Event("bhyve exited", ""))
    /\ pc' = "after"
    /\ UNCHANGED <<allocVars, call, retval, vmspec, built, args, vm, spec, reboot_count, next_target, exit_code,
                   vmrun, emu_idx, result, proc_exit, sessions>>

-----------------------------------------------------------------------------
(* vm_main after the session (lines 236-270) and main (lines 339-342).     *)

returns_early_dry_run_only(a) == a.dry_run

(* line 236: vm_main returns Ok(0) right after the session                 *)
returns_early(a) == a.debug \/ a.dry_run

(* lines 236-238                                                           *)
AfterSession ==
    /\ pc = "after"
    /\ IF returns_early(args)
       THEN /\ result' = Some(Ok(0))
            /\ pc' = "returned"
       ELSE /\ result' = result
            /\ pc' = "cleanup"
    /\ UNCHANGED <<allocVars, call, retval, vmspec, built, args, vm, spec, reboot_count, next_target, exit_code,
                   vmrun, emu_idx, run_result, host, proc_exit, log, sessions, codes>>

(* lines 240-251: release every ephemeral object; a failed release warns   *)
(* or, with --panic-on-failed-cleanup, panics                              *)
RECURSIVE release_all(_, _, _, _)
release_all(h, objs, i, panic) ==
    IF i > Len(objs) THEN [host |-> h, released |-> objs, panicked |-> FALSE]
    ELSE IF objs[i] \in h.files \cup h.nodes
         THEN release_all([h EXCEPT !.files = @ \ {objs[i]}, !.nodes = @ \ {objs[i]}],
                          objs, i + 1, panic)
         ELSE IF panic
              THEN [host |-> h, released |-> SubSeq(objs, 1, i), panicked |-> TRUE]
              ELSE release_all(h, objs, i + 1, panic)

Cleanup ==
    /\ pc = "cleanup"
    /\ LET r == release_all(host, ephemeral_objects(Run), 1, args.panic_on_failed_cleanup)
       IN  /\ host' = r.host
           /\ log' = log \o [i \in 1..Len(r.released) |-> Event("release", r.released[i])]
           /\ IF r.panicked
              THEN /\ pc' = "panicked"
                   /\ proc_exit' = Some(101)
              ELSE /\ pc' = "decide"
                   /\ proc_exit' = proc_exit
    /\ UNCHANGED <<allocVars, call, retval, vmspec, built, args, vm, spec, reboot_count, next_target, exit_code,
                   vmrun, emu_idx, run_result, result, sessions, codes>>

should_reboot_le(count, a, code, session_ok) ==
    /\ IsSome(a.reboot_count) => count <= Unwrap(a.reboot_count)
    /\ code \in a.reboot_on
    /\ session_ok
    /\ ~a.dry_run
    /\ ~a.no_reboot

should_reboot_ignoring_no_reboot(count, a, code, session_ok) ==
    /\ IsSome(a.reboot_count) => count < Unwrap(a.reboot_count)
    /\ code \in a.reboot_on
    /\ session_ok
    /\ ~a.dry_run

(* lines 256-260; reboot_count.unwrap_or(usize::MAX) is above every count  *)
(* a run can reach, so an unset --reboot-count never stops the loop        *)
should_reboot(count, a, code, session_ok) ==
    /\ IsSome(a.reboot_count) => count < Unwrap(a.reboot_count)
    /\ code \in a.reboot_on
    /\ session_ok
    /\ ~a.dry_run
    /\ ~a.no_reboot

(* lines 253-270                                                           *)
RebootDecision ==
    /\ pc = "decide"
    /\ LET rr == Unwrap(run_result)
           ec == IF rr.ok THEN rr.code ELSE 4
       IN  /\ exit_code' = Some(ec)
           /\ IF should_reboot(reboot_count, args, ec, rr.ok)
              THEN /\ reboot_count' = reboot_count + 1
                   /\ pc' = "loop"
                   /\ result' = result
              ELSE /\ reboot_count' = reboot_count
                   /\ pc' = "returned"
                   /\ result' = IF rr.ok THEN Some(Ok(ec)) ELSE Some(rr)
    /\ UNCHANGED <<allocVars, call, retval, vmspec, built, args, vm, spec, next_target, vmrun, emu_idx,
                   run_result, host, proc_exit, log, sessions, codes>>

(* main, lines 339-342: an error is printed and main returns normally,     *)
(* Ok(exit_code) ends the process with that code                           *)
main_exit_status(r) == IF r.ok THEN r.code ELSE 0

MainExit ==
    /\ pc = "returned"
    /\ proc_exit' = Some(main_exit_status(Unwrap(result)))
    /\ pc' = "exited"
    /\ UNCHANGED <<allocVars, call, retval, vmspec, built, args, vm, spec, reboot_count, next_target, exit_code,
                   vmrun, emu_idx, run_result, host, result, log, sessions, codes>>

-----------------------------------------------------------------------------
(* Inputs of the supervisor specification.                                 *)
BootromPath == default_bootopt.bootrom

TapNet(fix) == Emulation(None, fix, VirtioNet("tap9", "tap"))
Passthru(fix) == Emulation(None, fix, PciPassthruX(Some("pci0:3:0:0"), None, Some("/rom.bin")))
Console == Emulation(None, FALSE, VirtioConsole(<<"/tmp/vtcon0">>))
Disk == Emulation(Some(PciSlot(0, 5, 0)), FALSE, VirtioBlk("/tmp/img"))

TestTarget ==
    VmSpecMod(<<TapNet(TRUE)>>, None, Some("test"), Some("/bin/test-up"))

(* the target "test" hands over to the implicit "default"; the root names  *)
(* a next target "next" that the document does not define                  *)
DefaultTarget ==
    VmSpecMod(<<TapNet(TRUE)>>, None, Some("default"), None)

ChainDoc ==
    VmSpec("t", <<Disk>>, None, None, Some("next"), None,
           [NoTargets EXCEPT !["test"] = Some(DefaultTarget)])

MainDocs ==
    {VmSpec("t", <<TapNet(f)>>, None, None, None, None, NoTargets) : f \in BOOLEAN}
    \cup {ChainDoc}
    \cup {VmSpec("t", <<TapNet(FALSE), Passthru(f)>>, None, None, None, None, NoTargets) :
              f \in BOOLEAN}
    \cup {VmSpec("t", <<Console, Disk>>, None, None, None, Some("/bin/up"),
                 [NoTargets EXCEPT !["test"] = Some(TestTarget)])}

Hosts ==
    {Host({}, {}, {BootromPath, "/tmp/img"}, {}, {PciDevice("pci0:3:0:0", "em0", 0, "0x80862725")}, v) :
        v \in BOOLEAN}
    \cup {Host({"tap9"}, {}, {BootromPath, "/tmp/img", "/rom.bin"}, {},
                {PciDevice("pci0:3:0:0", "em0", 0, "0x80862725")}, FALSE),
          Host({"tap9"}, {"tap9"}, {BootromPath, "/tmp/img", "/rom.bin"}, {},
                {PciDevice("pci0:3:0:0", "ppt", 0, "0x80862725")}, FALSE),
          Host({}, {}, {}, {}, {}, FALSE),
          Host({}, {}, {BootromPath, "/tmp/img"}, {"/tmp/vtcon0"}, {}, FALSE)}

MaxRebootCount == 2

MaxFlags == 2

FlagCount(a) ==
    Cardinality({f \in {"no_reboot", "force", "dry_run", "debug", "pid", "panic", "noreq"} :
        \/ f = "no_reboot" /\ a.no_reboot
        \/ f = "force" /\ a.force
        \/ f = "dry_run" /\ a.dry_run
        \/ f = "debug" /\ a.debug
        \/ f = "pid" /\ IsSome(a.vm_pid_file)
        \/ f = "panic" /\ a.panic_on_failed_cleanup
        \/ f = "noreq" /\ a.no_requirement_check})

(* command lines with at most MaxFlags of the optional switches set        *)
ArgumentSet ==
    {a \in {Arguments(t, nr, f, dr, dbg, rc, ro, pf, pan, nrc) :
                t \in {None, Some("test")}, nr \in BOOLEAN, f \in BOOLEAN, dr \in BOOLEAN,
                dbg \in BOOLEAN, rc \in {None} \cup {Some(n) : n \in 0..MaxRebootCount},
                ro \in {{0}, {0, 1}}, pf \in {None, Some("/var/run/vm.pid")},
                pan \in BOOLEAN, nrc \in BOOLEAN} : FlagCount(a) <= MaxFlags}

Init ==
    /\ vmspec = None /\ built = None
    /\ call = None /\ retval = None
    /\ AllocIdle
    /\ args \in ArgumentSet
    /\ vm \in MainDocs
    /\ host \in Hosts
    /\ spec = vm
    /\ reboot_count = 0
    /\ next_target = args.target
    /\ exit_code = None
    /\ vmrun = None
    /\ emu_idx = 0
    /\ run_result = None
    /\ pc = "loop"
    /\ result = None
    /\ proc_exit = None
    /\ log = <<>>
    /\ sessions = 0
    /\ codes = <<>>

Next ==
    \/ LoopTop
    \/ RecoverStep
    \/ FullCheck
    \/ SessionStart
    \/ DestroyFinish
    \/ SpawnHypervisor
    \/ PostStartScript
    \/ HypervisorExit
    \/ AfterSession
    \/ Cleanup
    \/ RebootDecision
    \/ MainExit

Spec == Init /\ [][Next]_vars

-----------------------------------------------------------------------------
(* Properties of the supervisor.                                           *)
HasFatalLeaf(a) == print_shows_fatal(a)

NewEvents == SubSeq(log', Len(log) + 1, Len(log'))

(* C5: unless --no-requirement-check is set, the hypervisor is never       *)
(* spawned in an iteration whose full precondition check returns a         *)
(* non-recoverable assertion (vm_main returns PreconditionFailure          *)
(* instead); a passing or recoverable check proceeds to the session.       *)
C5_FatalPreconditionNeverSpawns ==
    /\ [][(pc = "check" /\ pc' # pc) =>
            LET a == VmRun_check(Run, host)
            IN  IF IsSome(a) /\ HasFatalLeaf(Unwrap(a))
                THEN /\ pc' = "returned"
                     /\ result' = Some(Err("PreconditionFailure"))
                     /\ sessions' = sessions
                ELSE pc' = "session"]_vars
    /\ [](\A k \in 1..Len(log) :
            (log[k].ev = "spawn bhyve" /\ ~args.no_requirement_check) =>
                \E j \in 1..(k - 1) : /\ log[j].ev = "check"
                                      /\ log[j].iter = log[k].iter
                                      /\ log[j].arg # "fatal")

(* a run that ended with PreconditionFailure before any session            *)
C5_Witness ==
    /\ pc = "exited"
    /\ result = Some(Err("PreconditionFailure"))
    /\ ~args.no_requirement_check
    /\ \E k \in 1..Len(log) : log[k].ev = "check" /\ log[k].arg = "fatal"

(* C6: in the per-emulation recovery stage the repair is invoked iff the   *)
(* emulation's check fails with a recoverable assertion and at least one   *)
(* of (fix flag, --force, an affirmative answer) holds; no repair closure  *)
(* is invoked for an assertion with a Fatal leaf; the prompt is asked only *)
(* when the assertion is recoverable and neither fix nor --force is set.   *)
C6_RepairOnlyWithConsent ==
    [][(pc = "recover" /\ emu_idx' = emu_idx + 1) =>
        LET e == Run.emulations[emu_idx]
            a == EmulatedPciDevice_check(e, host)
            failedRecoverable == IsSome(a) /\ ~HasFatalLeaf(Unwrap(a))
            asked == \E i \in 1..Len(NewEvents) : NewEvents[i].ev = "ask_yesno"
            yes == \E i \in 1..Len(NewEvents) :
                       NewEvents[i].ev = "ask_yesno" /\ NewEvents[i].arg = "y"
            repaired == \E i \in 1..Len(NewEvents) : NewEvents[i].ev \in RepairOps
        IN  /\ repaired <=> (failedRecoverable /\ (e.want_fix \/ args.force \/ yes))
            /\ asked => (failedRecoverable /\ ~e.want_fix /\ ~args.force)
            /\ (IsSome(a) /\ HasFatalLeaf(Unwrap(a))) => (~repaired /\ host' = host)]_vars

(* a repair that followed an affirmative answer, and, earlier in the same  *)
(* run, nothing repaired without consent                                   *)
C6_Witness ==
    \E i, j \in 1..Len(log) :
        /\ j = i + 1
        /\ log[i].ev = "ask_yesno" /\ log[i].arg = "y"
        /\ log[j].ev \in RepairOps

(* C7: for a virtio-net device with Tap backend whose interface N is       *)
(* absent from the host, the check yields a Recoverable assertion whose    *)
(* repair runs `ifconfig tap create name N`, so that after the repair the  *)
(* NetworkBackendAvailable check for N passes.                             *)
C7_TapRepairCreatesDeclaredInterface ==
    [][(pc = "recover" /\ emu_idx' = emu_idx + 1) =>
        LET d == Run.emulations[emu_idx].emulation
            a == BhyveDev_check(d, host)
            repaired == \E i \in 1..Len(NewEvents) : NewEvents[i].ev \in RepairOps
        IN  (d.device = "virtio-net" /\ d.tpe = "tap" /\ d.name \notin host.taps) =>
                /\ IsSome(a)
                /\ Unwrap(a).kind = "Recoverable"
                /\ Unwrap(a).repair = Some(Repair("ifconfig tap create name", d.name))
                /\ repaired => NetworkBackendAvailable_check(d.tpe, d.name, host') = None]_vars

(* C8: when vm_main ends with an error the supervisor exits with code 4;   *)
(* when it ends with Ok(code) the supervisor exits with that code.         *)
C8_ErrorExitsWithFour ==
    pc = "exited" =>
        IF Unwrap(result).ok
        THEN proc_exit = Some(Unwrap(result).code)
        ELSE proc_exit = Some(4)

(* the steps that leave the part of an iteration that follows the session  *)
PostSession == {"after", "cleanup", "decide"}

LeavesPostSession == pc \in PostSession /\ pc' \notin PostSession

C9_Cond ==
    /\ IsSome(args.reboot_count) => reboot_count < Unwrap(args.reboot_count)
    /\ Unwrap(run_result).ok
    /\ Unwrap(run_result).code \in args.reboot_on
    /\ ~args.no_reboot
    /\ ~args.dry_run

(* C9 as claimed: after a session a further iteration is started, with     *)
(* reboot_count incremented by exactly 1, iff reboot_count < max_reboots,  *)
(* the exit code is in reboot_on, the session returned Ok, and neither     *)
(* --no-reboot nor --dry-run is set; otherwise the loop terminates; with   *)
(* --no-reboot no second session is ever run.                              *)
C9_RebootIffAsClaimed ==
    /\ [][LeavesPostSession =>
            /\ (pc' = "loop" /\ reboot_count' = reboot_count + 1) <=> C9_Cond
            /\ pc' # "loop" => (pc' \in {"returned", "panicked"}
                                /\ reboot_count' = reboot_count)]_vars
    /\ [](args.no_reboot => sessions < 2)

(* C9 (amended): after a session a further iteration is started, with      *)
(* reboot_count incremented by exactly 1, iff reboot_count < max_reboots,  *)
(* the exit code is in reboot_on, the session returned Ok, none of         *)
(* --no-reboot, --dry-run and --debug is set, and the cleanup did not      *)
(* abort under --panic-on-failed-cleanup; otherwise the loop terminates;   *)
(* with --no-reboot at most one session is ever run.                       *)
C9_RebootIff ==
    /\ [][LeavesPostSession =>
            /\ (pc' = "loop" /\ reboot_count' = reboot_count + 1)
                   <=> (C9_Cond /\ ~args.debug /\ pc' # "panicked")
            /\ pc' # "loop" => (pc' \in {"returned", "panicked"}
                                /\ reboot_count' = reboot_count)]_vars
    /\ [](args.no_reboot => sessions <= 1)

(* a second iteration was started after a session                          *)
C9_Witness ==
    /\ pc = "loop"
    /\ reboot_count = 1
    /\ sessions = 1
    /\ codes # <<>>

(* C10: with --reboot-count N at most N+1 sessions run and the value       *)
(* vm_main returns is the exit code of the last session; for N = 2,        *)
(* reboot_on = {0,1} and exit codes 0,0,1,3 exactly three sessions run     *)
(* and the final exit code is 1.                                           *)
C10_RebootCountBoundsSessions ==
    /\ IsSome(args.reboot_count) => sessions <= Unwrap(args.reboot_count) + 1
    /\ (pc \in {"returned", "exited"} /\ Unwrap(result).ok) =>
           (codes # <<>> /\ Unwrap(result).code = codes[Len(codes)])
    /\ (/\ args.reboot_count = Some(2)
        /\ args.reboot_on = {0, 1}
        /\ Len(codes) >= 3
        /\ SubSeq(codes, 1, 3) = <<0, 0, 1>>) =>
           /\ sessions = 3
           /\ Len(codes) = 3
           /\ pc \in {"returned", "exited"} => result = Some(Ok(1))
           /\ pc = "exited" => proc_exit = Some(1)

(* scenario S6 ran to its end                                              *)
C10_Witness ==
    /\ args.reboot_count = Some(2)
    /\ args.reboot_on = {0, 1}
    /\ codes = <<0, 0, 1>>
    /\ sessions = 3
    /\ pc = "exited"
    /\ proc_exit = Some(1)

-----------------------------------------------------------------------------
(* Properties of the target overlay.                                       *)

(* the root document with target t consumed once (the root when there is   *)
(* no target to apply)                                                     *)
RootWithTarget(root, t) ==
    IF IsNone(t) \/ ~has_target(root, Unwrap(t)) THEN root
    ELSE consume(root, Unwrap(root.targets[Unwrap(t)]))

(* C11: in every loop iteration that gets past target selection and build, *)
(* the effective spec is the root document with that iteration's target    *)
(* consumed once; nothing of the overlays consumed in earlier iterations   *)
(* is left in it.                                                          *)
C11_FreshCloneEachIteration ==
    [][(pc = "loop" /\ pc' \notin {"loop", "returned"})
          => spec' = RootWithTarget(vm, next_target)]_vars

TargetMissing(s, t) == t \notin TargetNames \/ s.targets[t] = None

(* C12: when the next target t is not a key of targets, then for           *)
(* t = "default" the current spec is reset to the root document and the    *)
(* iteration goes on; for any other t vm_main ends with ProfileNotFound,   *)
(* the current spec is unchanged, no VmRun is built and the iteration has  *)
(* no precondition check, repair, session or spawn.                        *)
C12_MissingTarget ==
    /\ [][(pc = "loop" /\ pc' # pc /\ IsSome(next_target)
            /\ TargetMissing(spec, Unwrap(next_target)))
          => IF Unwrap(next_target) = "default"
             THEN /\ spec' = vm
                  /\ result' # Some(Err("ProfileNotFound"))
             ELSE /\ result' = Some(Err("ProfileNotFound"))
                  /\ pc' = "returned"
                  /\ UNCHANGED <<spec, vmrun, host, log, sessions>>]_vars
    /\ [](result = Some(Err("ProfileNotFound"))
            => \A i \in 1..Len(log) : log[i].iter # reboot_count)

(* the third iteration ends with ProfileNotFound after the second one went *)
(* back to the root document through the implicit "default"               *)
C12_Witness ==
    /\ result = Some(Err("ProfileNotFound"))
    /\ reboot_count = 2
    /\ vm = ChainDoc
    /\ spec = vm
    /\ args.target = Some("test")

-----------------------------------------------------------------------------
(* Properties of the ephemeral cleanup.                                    *)

(* a step that removes a file-system entry of the host                     *)
Releases == \E o \in host.files \cup host.nodes : o \notin host'.files \cup host'.nodes

(* C13: an ephemeral resource is released only in the cleanup of an        *)
(* iteration whose hypervisor has been spawned and has exited, and before  *)
(* the reboot decision of that iteration; an iteration whose session       *)
(* failed before the spawn releases nothing.                               *)
C13_ReleaseOnlyAfterExit ==
    [][Releases
          => /\ pc = "cleanup"
             /\ pc' \in {"decide", "panicked"}
             /\ \E i \in 1..Len(log) : log[i] = Event("bhyve exited", "")]_vars

-----------------------------------------------------------------------------
(* Properties of --dry-run and --debug.                                    *)
DryOrDebug == args.dry_run \/ args.debug

SessionEffects ==
    {"open_pid_file", "bhyvectl --destroy", "spawn bhyve", "post_start_script",
     "bhyve exited", "release"}

-----------------------------------------------------------------------------
(* Properties of --no-requirement-check.                                   *)
PreconditionEffects == {"check", "ask_yesno"} \cup RepairOps

(* C15: with --no-requirement-check no condition is checked, no prompt is  *)
(* issued and no repair is run in any iteration, the step from target      *)
(* selection to the session leaves the host untouched, and the session is  *)
(* started for every spec that builds, fatal preconditions included.       *)
C15_NoRequirementCheckSkipsStage ==
    /\ [](args # None /\ args.no_requirement_check
            => /\ pc \notin {"recover", "check"}
               /\ \A i \in 1..Len(log) : log[i].ev \notin PreconditionEffects)
    /\ [][(args # None /\ args.no_requirement_check /\ pc = "loop" /\ pc' # pc)
            => /\ host' = host
               /\ \/ pc' = "session" /\ vmrun' # None
                  \/ pc' = "returned" /\ ~Unwrap(result').ok]_vars

(* the hypervisor is about to be spawned although the full check of the    *)
(* compiled VmRun has a Fatal leaf                                         *)
C15_Witness ==
    /\ args # None
    /\ args.no_requirement_check
    /\ pc = "spawn"
    /\ VmRun_check(Run, host) # None
    /\ HasFatalLeaf(Unwrap(VmRun_check(Run, host)))

-----------------------------------------------------------------------------
(* Specification of consume(): a document and a patch are chosen, consume  *)
(* is applied once.                                                        *)
MaxPatchFields == 2

(* the fields consume replaces with `?field` (an Option on both sides)     *)
OptionFields ==
    {"bootopt", "gdb", "com1", "com2", "com3", "com4", "extra_options",
     "next_target", "post_start_script", "graphic"}

(* the fields consume replaces with `field` (a plain value in VmSpec)      *)
ValueFields ==
    {"cpu", "mem", "utc_clock", "yield_on_hlt", "generate_acpi", "wire_guest_mem",
     "force_msi", "disable_mptable_gen"}

(* a patch that supplies every field                                       *)
FullPatch ==
    [VmSpecMod(<<>>, Some(GraphicOption(TRUE, None, None)), Some("next"), Some("/bin/patch-up"))
        EXCEPT !.bootopt = Some([bootrom |-> "/boot/patch.fd", varfile |-> None]),
               !.com1 = Some("stdio"), !.com2 = Some("stdio"),
               !.com3 = Some("stdio"), !.com4 = Some("stdio"),
               !.cpu = Some(CpuSpec(2, 2, 1)), !.mem = Some(MemorySpec(2048)),
               !.gdb = Some("localhost:1234"),
               !.utc_clock = Some(FALSE), !.yield_on_hlt = Some(FALSE),
               !.generate_acpi = Some(FALSE), !.wire_guest_mem = Some(TRUE),
               !.force_msi = Some(TRUE), !.disable_mptable_gen = Some(TRUE),
               !.extra_options = Some("-x")]

EmptyPatch == VmSpecMod(<<>>, None, None, None)

(* the patch supplying the fields S of FullPatch and the emulations emus   *)
PatchOf(S, emus) ==
    [f \in DOMAIN FullPatch |->
        IF f = "emulations" THEN emus
        ELSE IF f \in S THEN FullPatch[f] ELSE None]

Patches ==
    {PatchOf(S, emus) :
        S \in {T \in SUBSET (OptionFields \cup ValueFields) : Cardinality(T) <= MaxPatchFields},
        emus \in {<<>>, <<TapNet(TRUE)>>, <<Console, Disk>>}}

(* a document with every optional field absent, and one with all of them   *)
BareSpec == VmSpec("t", <<>>, None, None, None, None, NoTargets)

FullSpec ==
    [VmSpec("t", <<>>, Some(PciSlot(0, 31, 0)), Some(GraphicOption(FALSE, None, None)),
            Some("test"), Some("/bin/up"), [NoTargets EXCEPT !["test"] = Some(TestTarget)])
        EXCEPT !.bootopt = Some(default_bootopt),
               !.com1 = Some("/dev/nmdm0A"), !.com2 = Some("/dev/nmdm0A"),
               !.com3 = Some("/dev/nmdm0A"), !.com4 = Some("/dev/nmdm0A"),
               !.gdb = Some("localhost:9999"), !.uuid = Some("u-1"),
               !.extra_options = Some("-y"), !.power_off_destroy_vm = TRUE]

ConsumeSelves ==
    {[d EXCEPT !.emulations = e] : d \in {BareSpec, FullSpec}, e \in {<<>>, <<Disk>>}}
    \cup {[BareSpec EXCEPT !.emulations = <<Console>>, !.lpc_slot = l] :
              l \in {None, Some(PciSlot(0, 2, 0))}}

ConsumeCall(self, patch) == [fn |-> "consume", self |-> self, patch |-> patch]

InitConsume ==
    /\ call \in {Some(ConsumeCall(d, p)) : d \in ConsumeSelves, p \in Patches}
    /\ retval = None
    /\ vmspec = None /\ built = None
    /\ MainIdle /\ AllocIdle

DoConsume ==
    /\ call # None
    /\ Unwrap(call).fn = "consume"
    /\ retval = None
    /\ retval' = Some(consume(Unwrap(call).self, Unwrap(call).patch))
    /\ UNCHANGED <<allocVars, call, vmspec, built, mainVars>>

NextConsume == DoConsume

SpecConsume == InitConsume /\ [][NextConsume]_vars

ConsumeDone == call # None /\ Unwrap(call).fn = "consume" /\ retval # None

(* C16: after consume(patch) every field other than emulations has the     *)
(* patch's value where the patch supplies one and its previous value       *)
(* otherwise (always so for the fields a patch cannot carry); consume of   *)
(* the empty patch is the identity; no field that was Some becomes None.   *)
C16_ConsumeFieldwise ==
    ConsumeDone =>
        LET s == Unwrap(call).self
            p == Unwrap(call).patch
            r == Unwrap(retval)
        IN  /\ DOMAIN r = DOMAIN s
            /\ \A f \in DOMAIN s \ {"emulations"} :
                   IF f \in DOMAIN p /\ p[f] # None
                   THEN r[f] = (IF f \in OptionFields THEN p[f] ELSE Unwrap(p[f]))
                   ELSE r[f] = s[f]
            /\ (p = EmptyPatch => r = s)
            /\ \A f \in OptionFields \cup {"lpc_slot", "uuid"} : s[f] # None => r[f] # None

(* a patch that supplies com1 and nothing for gdb was consumed by a        *)
(* document that had both                                                  *)
C16_Witness ==
    /\ ConsumeDone
    /\ Unwrap(call).patch.com1 # None
    /\ Unwrap(call).patch.gdb = None
    /\ Unwrap(call).self.com1 # None
    /\ Unwrap(call).self.com1 # Unwrap(call).patch.com1
    /\ Unwrap(call).self.gdb # None
    /\ Unwrap(retval).com1 = Unwrap(call).patch.com1

(* the n-th bus-0 slot number above the hostbridge's that `taken` leaves   *)
(* free                                                                    *)
RECURSIVE NthFreeAfter(_, _, _)
NthFreeAfter(taken, k, n) ==
    IF PciSlot(0, k + 1, 0) \in taken THEN NthFreeAfter(taken, k + 1, n)
    ELSE IF n = 1 THEN k + 1
    ELSE NthFreeAfter(taken, k + 1, n - 1)

OneSlotless(emus) == Len(emus) = 1 /\ emus[1].slot = None

-----------------------------------------------------------------------------
(* Memory sizes (util/mod.rs, spec/mod.rs).  A string is a sequence of     *)
(* one-character strings.  A call returns                                  *)
(*   [kind |-> "ok", value |-> n], [kind |-> "err", value |-> e] or        *)
(*   [kind |-> "panic", value |-> ""].                                     *)
RetOk(v) == [kind |-> "ok", value |-> v]
RetErr(e) == [kind |-> "err", value |-> e]
RetPanic == [kind |-> "panic", value |-> ""]

(* char::to_digit in base 36, for the characters the inputs use            *)
DigitValue ==
    [c \in {"0", "1", "2", "3", "4", "5", "6", "7", "8", "9", "a", "b", "f"} |->
        CASE c = "0" -> 0 [] c = "1" -> 1 [] c = "2" -> 2 [] c = "3" -> 3 [] c = "4" -> 4
          [] c = "5" -> 5 [] c = "6" -> 6 [] c = "7" -> 7 [] c = "8" -> 8 [] c = "9" -> 9
          [] c = "a" -> 10 [] c = "b" -> 11 [] c = "f" -> 15]

(* char::is_digit(radix)                                                   *)
is_digit(c, radix) == c \in DOMAIN DigitValue /\ DigitValue[c] < radix

(* N::from_str_radix on a non-empty string of digits of that radix (the    *)
(* empty string, an error, is handled by the caller)                       *)
RECURSIVE from_str_radix(_, _)
from_str_radix(digits, radix) ==
    IF Len(digits) = 0 THEN 0
    ELSE from_str_radix(SubSeq(digits, 1, Len(digits) - 1), radix) * radix
         + DigitValue[digits[Len(digits)]]

(* the loop of take_numeric (lines 40-81): [index, radix] when it ends     *)
RECURSIVE take_numeric_loop(_, _, _, _, _)
take_numeric_loop(parse_radix, input, index, parsed_radix, radix) ==
    IF index >= Len(input) THEN [index |-> index, radix |-> radix]
    ELSE LET value == input[index + 1]
             pr == parsed_radix \/ (parse_radix /\ index = 0 /\ value = "0")
             rx == IF parse_radix /\ index = 1 /\ pr
                   THEN IF value = "x" THEN 16
                        ELSE IF value = "b" THEN 2
                        ELSE IF is_digit(value, 8) THEN 8
                        ELSE radix
                   ELSE radix
         IN  IF is_digit(value, rx)
             THEN take_numeric_loop(parse_radix, input, index + 1, pr, rx)
             ELSE [index |-> index, radix |-> rx]

(* take_numeric: Ok((value, rest)), Err(InvalidValue), or the panic of a   *)
(* slice whose start is beyond its end                                     *)
take_numeric(parse_radix, input) ==
    LET l == take_numeric_loop(parse_radix, input, 0, FALSE, 10)
        start == IF l.radix = 16 \/ l.radix = 2 THEN 2 ELSE IF l.radix = 8 THEN 1 ELSE 0
    IN  IF start > l.index THEN RetPanic
        ELSE IF start = l.index THEN RetErr("InvalidValue")
        ELSE RetOk([value |-> from_str_radix(SubSeq(input, start + 1, l.index), l.radix),
                    rest |-> SubSeq(input, l.index + 1, Len(input))])

parse_mem_in_kb(input) ==
    LET t == take_numeric(TRUE, input)
    IN  IF t.kind # "ok" THEN t
        ELSE LET rest == t.value.rest
                 value == t.value.value
             IN  IF rest \in {<<"K">>, <<"K", "B">>, <<"k", "b">>, <<"K", "b">>}
                 THEN RetOk(value * 1)
                 ELSE IF rest \in {<<"M">>, <<"M", "B">>, <<"m", "b">>, <<"M", "b">>}
                 THEN RetOk(value * 1024)
                 ELSE IF rest \in {<<"G">>, <<"G", "B">>, <<"g", "b">>, <<"G", "b">>}
                 THEN RetOk(value * (1024 * 1024))
                 ELSE IF rest \in {<<"T">>, <<"T", "B">>, <<"t", "b">>, <<"T", "b">>}
                 THEN RetOk(value * (1024 * 1024 * 1024))
                 ELSE RetErr("InvalidUnit")

(* Either<usize, String>: a JSON integer is Left, a JSON string is Right   *)
Left(n) == [left |-> TRUE, num |-> n, str |-> <<>>]
Right(str) == [left |-> FALSE, num |-> 0, str |-> str]

(* MemorySpec::deserialize                                                 *)
MemorySpec_deserialize(either) ==
    IF either.left THEN RetOk(MemorySpec(either.num \div 1000))
    ELSE LET kb == parse_mem_in_kb(either.str)
         IN  IF kb.kind = "ok" THEN RetOk(MemorySpec(kb.value)) ELSE kb

(* Specification of MemorySpec::deserialize: a JSON value is chosen, the   *)
(* deserializer is applied once.                                           *)
MaxMemLen == 4

MemAlphabet == {"0", "1", "7", "8", "a", "x", "b", "K", "M", "G", "T"}

MemStrings ==
    UNION {[1..n -> MemAlphabet] : n \in 1..MaxMemLen}
    \cup {<<"0", "x", "1", "0", "K">>, <<"0", "b", "1", "0", "1", "M">>,
          <<"0", "1", "7", "7", "G">>, <<"1", "0", "2", "4", "K", "b">>,
          <<"1", "K", "B">>, <<"1", "k", "b">>, <<"2", "G", "B">>, <<"1", "k">>}

MemDone == call # None /\ Unwrap(call).fn = "MemorySpec::deserialize" /\ retval # None

(* the reading of a memory string the documentation gives: a number with   *)
(* an optional radix prefix, then K, M, G or T, then an optional b         *)
StatedUnitLen(str) ==
    IF Len(str) >= 2 /\ str[Len(str)] = "b" /\ str[Len(str) - 1] \in {"K", "M", "G", "T"} THEN 2
    ELSE IF Len(str) >= 1 /\ str[Len(str)] \in {"K", "M", "G", "T"} THEN 1
    ELSE 0

StatedMultiplier(str) ==
    LET u == str[Len(str) + 1 - StatedUnitLen(str)]
    IN  IF u = "K" THEN 1 ELSE IF u = "M" THEN 1024
        ELSE IF u = "G" THEN 1024 * 1024 ELSE 1024 * 1024 * 1024

StatedNumber(str) == SubSeq(str, 1, Len(str) - StatedUnitLen(str))

StatedRadix(num) ==
    IF Len(num) >= 2 /\ num[1] = "0" /\ num[2] = "x" THEN 16
    ELSE IF Len(num) >= 2 /\ num[1] = "0" /\ num[2] = "b" THEN 2
    ELSE IF Len(num) >= 2 /\ num[1] = "0" THEN 8
    ELSE 10

StatedDigits(num) ==
    IF StatedRadix(num) \in {16, 2} THEN SubSeq(num, 3, Len(num))
    ELSE IF StatedRadix(num) = 8 THEN SubSeq(num, 2, Len(num))
    ELSE num

RECURSIVE StatedValue(_, _)
StatedValue(digits, radix) ==
    IF digits = <<>> THEN 0
    ELSE StatedValue(SubSeq(digits, 1, Len(digits) - 1), radix) * radix
         + DigitValue[digits[Len(digits)]]

WellFormedMem(str) ==
    /\ StatedUnitLen(str) > 0
    /\ StatedDigits(StatedNumber(str)) # <<>>
    /\ \A i \in 1..Len(StatedDigits(StatedNumber(str))) :
           /\ StatedDigits(StatedNumber(str))[i] \in DOMAIN DigitValue
           /\ DigitValue[StatedDigits(StatedNumber(str))[i]] < StatedRadix(StatedNumber(str))

StatedKb(str) ==
    StatedValue(StatedDigits(StatedNumber(str)), StatedRadix(StatedNumber(str)))
        * StatedMultiplier(str)

(* the model's integers end at 2^31 - 1 while usize has 64 bits: the       *)
(* strings tried are those whose value, as computed and as stated, stays   *)
(* below that limit                                                        *)
FitsModelIntegers(str) ==
    LET t == take_numeric(TRUE, str)
        unit == IF t.kind = "ok" /\ t.value.rest # <<>> THEN t.value.rest[1] ELSE ""
        mult == IF unit \in {"T", "t"} THEN 1024 * 1024 * 1024
                ELSE IF unit \in {"G", "g"} THEN 1024 * 1024
                ELSE 1024
    IN  /\ t.kind = "ok" => t.value.value <= 2147483647 \div mult
        /\ WellFormedMem(str) =>
               StatedValue(StatedDigits(StatedNumber(str)), StatedRadix(StatedNumber(str)))
                   <= 2147483647 \div StatedMultiplier(str)

MemIntegers == {0, 17, 999, 1000, 1999, 4096000}

MemCall(either) == [fn |-> "MemorySpec::deserialize", either |-> either]

InitMem ==
    /\ call \in {Some(MemCall(Right(str))) : str \in {x \in MemStrings : FitsModelIntegers(x)}}
                \cup {Some(MemCall(Left(n))) : n \in MemIntegers}
    /\ retval = None
    /\ vmspec = None /\ built = None
    /\ MainIdle /\ AllocIdle

DoDeserializeMem ==
    /\ call # None
    /\ Unwrap(call).fn = "MemorySpec::deserialize"
    /\ retval = None
    /\ retval' = Some(MemorySpec_deserialize(Unwrap(call).either))
    /\ UNCHANGED <<allocVars, call, vmspec, built, mainVars>>

NextMem == DoDeserializeMem

SpecMem == InitMem /\ [][NextMem]_vars

(* C18: a memory string made of a number and a unit K, M, G or T (with an  *)
(* optional b) yields the number, read in the radix of its prefix          *)
(* (decimal, 0x, 0b, leading 0), times 1, 1024, 1024^2 or 1024^3; a JSON   *)
(* integer n yields n / 1000.                                              *)
C18_ParseMemInKb ==
    MemDone =>
        LET e == Unwrap(call).either
        IN  IF e.left
            THEN /\ Unwrap(retval).kind = "ok"
                 /\ Unwrap(retval).value.kb * 1000 <= e.num
                 /\ e.num < (Unwrap(retval).value.kb + 1) * 1000
            ELSE WellFormedMem(e.str)
                    => Unwrap(retval) = RetOk(MemorySpec(StatedKb(e.str)))

-----------------------------------------------------------------------------
(* PCI slot strings (spec/mod.rs).                                         *)

(* str::split(':'): the pieces between the colons, empty ones included     *)
RECURSIVE split_colon(_, _, _)
split_colon(s, i, piece) ==
    IF i > Len(s) THEN <<piece>>
    ELSE IF s[i] = ":" THEN <<piece>> \o split_colon(s, i + 1, <<>>)
    ELSE split_colon(s, i + 1, Append(piece, s[i]))

(* str::parse::<u8>(): decimal digits after an optional '+', at most 255   *)
parse_u8(m) ==
    LET d == IF m # <<>> /\ m[1] = "+" THEN Tail(m) ELSE m
    IN  IF d = <<>> \/ (\E i \in 1..Len(d) : ~is_digit(d[i], 10)) THEN RetErr("ParseIntError")
        ELSE IF Len(d) > 3 /\ (\E i \in 1..(Len(d) - 3) : d[i] # "0") THEN RetErr("ParseIntError")
        ELSE IF from_str_radix(d, 10) > 255 THEN RetErr("ParseIntError")
        ELSE RetOk(from_str_radix(d, 10))

(* vec_sequence_map(&comps, parse): the numbers, or the first error        *)
RECURSIVE vec_sequence_map(_, _, _)
vec_sequence_map(comps, i, v) ==
    IF i > Len(comps) THEN RetOk(v)
    ELSE LET b == parse_u8(comps[i])
         IN  IF b.kind # "ok" THEN RetErr("InvalidPciSlotRepr")
             ELSE vec_sequence_map(comps, i + 1, Append(v, b.value))

(* PciSlot::from_str                                                       *)
PciSlot_from_str(s) ==
    LET comps == split_colon(s, 1, <<>>)
    IN  IF Len(comps) > 3 \/ Len(comps) = 2 THEN RetErr("InvalidPciSlotRepr")
        ELSE LET nums == vec_sequence_map(comps, 1, <<>>)
             IN  IF nums.kind # "ok" THEN nums
                 ELSE IF Len(nums.value) = 1 THEN RetOk(PciSlot(0, nums.value[1], 0))
                 ELSE IF Len(nums.value) = 2 THEN RetOk(PciSlot(0, nums.value[1], nums.value[2]))
                 ELSE RetOk(PciSlot(nums.value[1], nums.value[2], nums.value[3]))

(* Specification of PciSlot::from_str: a string is chosen and parsed once. *)
MaxSlotLen == 5

SlotAlphabet == {"0", "1", "3", "7", ":"}

SlotStrings ==
    UNION {[1..n -> SlotAlphabet] : n \in 0..MaxSlotLen}
    \cup {<<"0", ":", "3", "1", ":", "0">>, <<"2", "5", "5", ":", "3", "1", ":", "7">>,
          <<"2", "5", "6">>, <<"1", ":", "2", ":", "3", ":", "4">>, <<"x">>,
          <<"0", ":", "4", "0", ":", "0">>, <<"0", ":", "5", ":", "9">>}

SlotCall(s) == [fn |-> "PciSlot::from_str", s |-> s]

InitSlot ==
    /\ call \in {Some(SlotCall(s)) : s \in SlotStrings}
    /\ retval = None
    /\ vmspec = None /\ built = None
    /\ MainIdle /\ AllocIdle

DoParseSlot ==
    /\ call # None
    /\ Unwrap(call).fn = "PciSlot::from_str"
    /\ retval = None
    /\ retval' = Some(PciSlot_from_str(Unwrap(call).s))
    /\ UNCHANGED <<allocVars, call, vmspec, built, mainVars>>

NextSlot == DoParseSlot

SpecSlot == InitSlot /\ [][NextSlot]_vars

SlotDone == call # None /\ Unwrap(call).fn = "PciSlot::from_str" /\ retval # None

(* the positions of the colons of a string, and the text around them       *)
ColonsOf(s) == {i \in 1..Len(s) : s[i] = ":"}

(* a component the documentation accepts: decimal digits of a u8           *)
IsSlotNumber(m) ==
    /\ m # <<>>
    /\ \A i \in 1..Len(m) : m[i] \in DOMAIN DigitValue /\ DigitValue[m[i]] < 10
    /\ \A i \in 1..(Len(m) - 3) : m[i] = "0"
    /\ StatedValue(SubSeq(m, IF Len(m) > 3 THEN Len(m) - 2 ELSE 1, Len(m)), 10) <= 255

SlotNumber(m) == StatedValue(SubSeq(m, IF Len(m) > 3 THEN Len(m) - 2 ELSE 1, Len(m)), 10)

(* C19: a slot string "s" gives (0, s, 0), "s:f" gives (0, s, f) and       *)
(* "b:s:f" gives (b, s, f); every other shape gives InvalidPciSlotRepr.    *)
C19_PciSlotForms ==
    SlotDone =>
        LET s == Unwrap(call).s
            c == ColonsOf(s)
            r == Unwrap(retval)
        IN  IF Cardinality(c) = 0 /\ IsSlotNumber(s)
            THEN r = RetOk(PciSlot(0, SlotNumber(s), 0))
            ELSE IF Cardinality(c) = 1
                    /\ \E i \in c : IsSlotNumber(SubSeq(s, 1, i - 1))
                                      /\ IsSlotNumber(SubSeq(s, i + 1, Len(s)))
            THEN \E i \in c :
                    r = RetOk(PciSlot(0, SlotNumber(SubSeq(s, 1, i - 1)),
                                      SlotNumber(SubSeq(s, i + 1, Len(s)))))
            ELSE IF Cardinality(c) = 2
                    /\ \E i, j \in c : /\ i < j
                                         /\ IsSlotNumber(SubSeq(s, 1, i - 1))
                                         /\ IsSlotNumber(SubSeq(s, i + 1, j - 1))
                                         /\ IsSlotNumber(SubSeq(s, j + 1, Len(s)))
            THEN \E i, j \in c :
                    /\ i < j
                    /\ r = RetOk(PciSlot(SlotNumber(SubSeq(s, 1, i - 1)),
                                         SlotNumber(SubSeq(s, i + 1, j - 1)),
                                         SlotNumber(SubSeq(s, j + 1, Len(s)))))
            ELSE r = RetErr("InvalidPciSlotRepr")

-----------------------------------------------------------------------------
(* C20: every PCI slot of a compiled VmRun (hostbridge, LPC bridge,        *)
(* explicitly placed or auto-assigned emulation) has slot <= 31 and        *)
(* func <= 7, so no declared slot beyond that range reaches a hypervisor   *)
(* invocation.                                                             *)
C20_SlotsWithinPciRange ==
    BuildOk =>
        \A i \in 1..Len(AllSlots(BuiltRun)) :
            AllSlots(BuiltRun)[i].slot <= 31 /\ AllSlots(BuiltRun)[i].func <= 7

-----------------------------------------------------------------------------
(* Hypervisor arguments (vm/mod.rs, vm/emulation.rs).  Strings are TLA+    *)
(* strings; format! is concatenation and Display of an integer is its      *)
(* decimal numeral.                                                        *)

(* CpuSpec::from_flat                                                      *)
CpuSpec_from_flat(threads) == CpuSpec(threads, 1, 1)

(* CpuSpec::to_bhyve_arg: the three values are passed to the format string *)
(* in the order sockets, cores, threads                                    *)
CpuSpec_to_bhyve_arg(c) ==
    IF c.sockets = 1 /\ c.cores = 1 THEN ToString(c.threads)
    ELSE "sockets=" \o ToString(c.sockets) \o ",threads=" \o ToString(c.cores)
             \o ",cores=" \o ToString(c.threads)

(* PciSlot::to_bhyve_arg                                                   *)
PciSlot_to_bhyve_arg(s) ==
    ToString(s.bus) \o ":" \o ToString(s.slot) \o ":" \o ToString(s.func)

(* push_on_options!: ",<name>" when the flag is set                        *)
push_on_options(base, flag, name) == IF flag THEN base \o "," \o name ELSE base

(* push_on_kv!: ",<key>=<value>" when the option is set; the value is      *)
(* handed over already displayed                                           *)
push_on_kv(base, value, key) ==
    IF IsSome(value) THEN base \o "," \o key \o "=" \o Unwrap(value) ELSE base

(* Display of an optional integer                                          *)
Displayed(o) == IF IsSome(o) THEN Some(ToString(Unwrap(o))) ELSE None

(* vm::emulation::VirtioBlk                                                *)
vm_VirtioBlk(path, nocache, direct, ro, logical, physical, nodelete) ==
    [path |-> path, nocache |-> nocache, direct |-> direct, ro |-> ro,
     logical_sector_size |-> logical, physical_sector_size |-> physical,
     nodelete |-> nodelete]

(* VirtioBlk::as_bhyve_arg; the sector size is appended by push_str of     *)
(* format!("sectorsize={value}")                                           *)
VirtioBlk_as_bhyve_arg(d) ==
    LET b0 == "virtio-blk," \o d.path
        b1 == push_on_options(b0, d.direct, "direct")
        b2 == push_on_options(b1, d.nocache, "nocache")
        b3 == push_on_options(b2, d.ro, "ro")
        b4 == push_on_options(b3, d.nodelete, "nodelete")
    IN  IF IsSome(d.logical_sector_size)
        THEN LET logical == ToString(Unwrap(d.logical_sector_size))
                 value == IF IsSome(d.physical_sector_size)
                          THEN logical \o "/" \o ToString(Unwrap(d.physical_sector_size))
                          ELSE logical
             IN  b4 \o "sectorsize=" \o value
        ELSE b4

(* VirtioConsole::as_bhyve_arg                                             *)
RECURSIVE VirtioConsole_ports(_, _, _)
VirtioConsole_ports(base, ports, index) ==
    IF index >= Len(ports) THEN base
    ELSE VirtioConsole_ports(base \o ",port" \o ToString(index + 1) \o "=" \o ports[index + 1],
                             ports, index + 1)

VirtioConsole_as_bhyve_arg(d) == VirtioConsole_ports("virtio-console", d.ports, 0)

(* vm::emulation::Framebuffer                                              *)
vm_Framebuffer(addr, port, w, h, vga, wait, password) ==
    [host |-> addr, port |-> port, w |-> w, h |-> h, vga |-> vga, wait |-> wait,
     password |-> password]

DefaultVncPort == 5900

(* Framebuffer::as_bhyve_arg                                               *)
Framebuffer_as_bhyve_arg(d) ==
    LET b0 == "fbuf,tcp=" \o d.host \o ":"
                 \o ToString(IF IsSome(d.port) THEN Unwrap(d.port) ELSE DefaultVncPort)
        b1 == push_on_kv(b0, Displayed(d.w), "w")
        b2 == push_on_kv(b1, Displayed(d.h), "h")
        b3 == push_on_kv(b2, d.vga, "vga")
        b4 == push_on_kv(b3, d.password, "password")
    IN  push_on_options(b4, d.wait, "wait")

(* Xhci::as_bhyve_arg                                                      *)
Xhci_as_bhyve_arg == "xhci,tablet"

(* as_bhyve_arg of a device declaration as build hands it over: a disk     *)
(* declared by its path alone has every flag off and no sector size.  The  *)
(* variants whose formatter needs NetBackend::to_string or                 *)
(* PciSlot::as_passthru_arg appear as their frontend name.                 *)
as_bhyve_arg(dev) ==
    CASE dev.device = "virtio-blk" ->
             VirtioBlk_as_bhyve_arg(vm_VirtioBlk(dev.path, FALSE, FALSE, FALSE, None, None, FALSE))
      [] dev.device = "virtio-console" -> VirtioConsole_as_bhyve_arg(dev)
      [] dev.device = "xhci" -> Xhci_as_bhyve_arg
      [] OTHER -> dev.device

(* EmulatedPciDevice::to_bhyve_arg: "<slot>,<legacy argument>"             *)
EmulatedPciDevice_to_bhyve_arg(e) ==
    PciSlot_to_bhyve_arg(e.slot) \o "," \o as_bhyve_arg(e.emulation)

(* LpcDevice::to_bhyve_arg                                                 *)
LpcDevice_to_bhyve_arg(l) ==
    IF l.kind = "com" THEN "com" \o ToString(l.n) \o "," \o l.path
    ELSE IF IsSome(l.varfile) THEN "bootrom," \o l.path \o "," \o Unwrap(l.varfile)
    ELSE "bootrom," \o l.path

(* the closures of bhyve_args                                              *)
push_yesno(argv, cond, value) == IF cond THEN Append(argv, value) ELSE argv

push_arg_pair(argv, key, value) == argv \o <<key, value>>

(* bhyve_args, the seven push_yesno calls in their order                   *)
bhyve_args_switches(run) ==
    LET a1 == push_yesno(<<>>, run.generate_acpi, "-A")
        a2 == push_yesno(a1, run.wire_guest_mem, "-S")
        a3 == push_yesno(a2, run.yield_on_hlt, "-H")
        a4 == push_yesno(a3, run.force_msi, "-W")
        a5 == push_yesno(a4, run.disable_mptable_gen, "-Y")
        a6 == push_yesno(a5, run.utc_clock, "-u")
    IN  push_yesno(a6, run.power_off_destroy_vm, "-D")

(* bhyve_args, -c, -m and the optional -G and -U                           *)
bhyve_args_pairs(argv, run) ==
    LET a1 == push_arg_pair(argv, "-c", CpuSpec_to_bhyve_arg(run.cpu))
        a2 == push_arg_pair(a1, "-m", ToString(run.mem_kb) \o "K")
        a3 == IF IsSome(run.gdb) THEN push_arg_pair(a2, "-G", Unwrap(run.gdb)) ELSE a2
    IN  IF IsSome(run.uuid) THEN push_arg_pair(a3, "-U", Unwrap(run.uuid)) ELSE a3

(* the -s entries of the host bridge and of the LPC bridge, which the      *)
(* VmRun carries as hostbridge_slot, hostbridge_brand and lpc_slot         *)
bhyve_args_bridges(argv, run) ==
    push_arg_pair(
        push_arg_pair(argv, "-s",
                      PciSlot_to_bhyve_arg(run.hostbridge_slot) \o "," \o run.hostbridge_brand),
        "-s", PciSlot_to_bhyve_arg(run.lpc_slot) \o ",lpc")

(* bhyve_args, one -s per emulation                                        *)
RECURSIVE bhyve_args_emulations(_, _, _)
bhyve_args_emulations(argv, emulations, i) ==
    IF i > Len(emulations) THEN argv
    ELSE bhyve_args_emulations(
             push_arg_pair(argv, "-s", EmulatedPciDevice_to_bhyve_arg(emulations[i])),
             emulations, i + 1)

(* bhyve_args, one -l per LPC device                                       *)
RECURSIVE bhyve_args_lpcs(_, _, _)
bhyve_args_lpcs(argv, lpc_devices, i) ==
    IF i > Len(lpc_devices) THEN argv
    ELSE bhyve_args_lpcs(push_arg_pair(argv, "-l", LpcDevice_to_bhyve_arg(lpc_devices[i])),
                         lpc_devices, i + 1)

(* VmRun::bhyve_args.  The LPC bridge is part of every VmRun, so the       *)
(* NoLpc error does not arise.                                             *)
bhyve_args(run) ==
    LET a1 == bhyve_args_switches(run)
        a2 == bhyve_args_pairs(a1, run)
        a3 == bhyve_args_bridges(a2, run)
        a4 == bhyve_args_emulations(a3, run.emulations, 1)
        a5 == bhyve_args_lpcs(a4, run.lpc_devices, 1)
    IN  RetOk(Append(a5, run.name))

(* Specification of the formatters: one call of one of them is chosen and  *)
(* applied.                                                                *)
MaxCpu == 3

CpuSpecs == {CpuSpec(t, c, s) : t \in 1..MaxCpu, c \in 1..MaxCpu, s \in 1..MaxCpu}

SectorSizes == {None, Some(512), Some(4096)}

BlkDevices ==
    {vm_VirtioBlk("/tmp/img", nc, d, ro, l, p, nd) :
        nc \in BOOLEAN, d \in BOOLEAN, ro \in BOOLEAN, l \in SectorSizes, p \in SectorSizes,
        nd \in BOOLEAN}

Framebuffers ==
    {vm_Framebuffer(addr, port, w, h, vga, wait, password) :
        addr \in {"0.0.0.0", "127.0.0.1"}, port \in {None, Some(5901)},
        w \in {None, Some(1280)}, h \in {None, Some(920)}, vga \in {None, Some("io")},
        wait \in BOOLEAN, password \in {None, Some("pw")}}

(* the minimal document: cpu 1, mem "512M", one disk at 0:5:0              *)
S1Doc ==
    [VmSpec("t", <<Disk>>, None, None, None, None, NoTargets)
        EXCEPT !.cpu = CpuSpec_from_flat(1),
               !.mem = MemorySpec_deserialize(Right(<<"5", "1", "2", "M">>)).value]

SwitchFields ==
    {"generate_acpi", "wire_guest_mem", "yield_on_hlt", "force_msi", "disable_mptable_gen",
     "utc_clock", "power_off_destroy_vm"}

(* the minimal document with any choice of the boolean switches, a debug   *)
(* port, a UUID and a serial console                                       *)
ArgDocs ==
    {[f \in DOMAIN S1Doc |->
         IF f \in SwitchFields THEN f \in on
         ELSE IF f = "gdb" THEN gdb
         ELSE IF f = "uuid" THEN uuid
         ELSE IF f = "com1" THEN com1
         ELSE S1Doc[f]] :
        on \in SUBSET SwitchFields, gdb \in {None, Some("localhost:9999")},
        uuid \in {None, Some("u-1")}, com1 \in {None, Some("/dev/nmdm0A")}}

FormatCall(fn, self) == [fn |-> fn, self |-> self]

InitFormat ==
    /\ call \in {Some(FormatCall("CpuSpec::to_bhyve_arg", c)) : c \in CpuSpecs}
                \cup {Some(FormatCall("VirtioBlk::as_bhyve_arg", d)) : d \in BlkDevices}
                \cup {Some(FormatCall("Framebuffer::as_bhyve_arg", d)) : d \in Framebuffers}
                \cup {Some(FormatCall("VmRun::bhyve_args", d)) : d \in ArgDocs}
    /\ retval = None
    /\ vmspec = None /\ built = None
    /\ MainIdle /\ AllocIdle

DoCpuArg ==
    /\ call # None
    /\ Unwrap(call).fn = "CpuSpec::to_bhyve_arg"
    /\ retval = None
    /\ retval' = Some(CpuSpec_to_bhyve_arg(Unwrap(call).self))
    /\ UNCHANGED <<allocVars, call, vmspec, built, mainVars>>

DoBlkArg ==
    /\ call # None
    /\ Unwrap(call).fn = "VirtioBlk::as_bhyve_arg"
    /\ retval = None
    /\ retval' = Some(VirtioBlk_as_bhyve_arg(Unwrap(call).self))
    /\ UNCHANGED <<allocVars, call, vmspec, built, mainVars>>

DoFramebufferArg ==
    /\ call # None
    /\ Unwrap(call).fn = "Framebuffer::as_bhyve_arg"
    /\ retval = None
    /\ retval' = Some(Framebuffer_as_bhyve_arg(Unwrap(call).self))
    /\ UNCHANGED <<allocVars, call, vmspec, built, mainVars>>

(* the document is built, then the VmRun is formatted                      *)
DoBhyveArgs ==
    /\ call # None
    /\ Unwrap(call).fn = "VmRun::bhyve_args"
    /\ retval = None
    /\ LET b == build(Unwrap(call).self, host)
       IN  /\ built' = Some(b)
           /\ retval' = Some(IF b.err = "" THEN bhyve_args(Unwrap(b.run)) ELSE RetErr(b.err))
    /\ UNCHANGED <<allocVars, call, vmspec, mainVars>>

NextFormat ==
    \/ DoCpuArg
    \/ DoBlkArg
    \/ DoFramebufferArg
    \/ DoBhyveArgs

SpecFormat == InitFormat /\ [][NextFormat]_vars

FormatDone(fn) == call # None /\ Unwrap(call).fn = fn /\ retval # None

(* the -c value as stated: each key carries the field of its name          *)
StatedCpuArg(c) ==
    IF c.sockets = 1 /\ c.cores = 1 THEN ToString(c.threads)
    ELSE "sockets=" \o ToString(c.sockets) \o ",threads=" \o ToString(c.threads)
             \o ",cores=" \o ToString(c.cores)

(* C21: the -c value is the thread count alone when sockets = cores = 1,   *)
(* and otherwise sockets=S,threads=T,cores=C with S, T and C the sockets,  *)
(* threads and cores fields of the CpuSpec.                                *)
C21_CpuArgument ==
    FormatDone("CpuSpec::to_bhyve_arg") =>
        Unwrap(retval) = StatedCpuArg(Unwrap(call).self)


(* the argv stated for the minimal document                                *)
S1Argv ==
    <<"-H", "-u", "-A", "-c", "1", "-m", "524288K", "-s", "0:0:0,hostbridge",
      "-s", "0:31:0,lpc", "-s", "0:5:0,virtio-blk,/tmp/img",
      "-l", "bootrom,/usr/local/share/uefi-firmware/BHYVE_UEFI.fd", "t">>

(* C22: for the minimal document (name t, cpu 1, mem 512M, one virtio-blk  *)
(* at 0:5 with path /tmp/img) and default flags the argv is exactly        *)
(* -H -u -A -c 1 -m 524288K -s 0:0:0,hostbridge -s 0:31:0,lpc              *)
(* -s 0:5:0,virtio-blk,/tmp/img -l bootrom,<default firmware> t.           *)
C22_MinimalArgv ==
    (FormatDone("VmRun::bhyve_args") /\ Unwrap(call).self = S1Doc) =>
        Unwrap(retval) = RetOk(S1Argv)

-----------------------------------------------------------------------------
(* Assertion trees as values (util/assertion.rs): is_recoverable and       *)
(* recover applied to every tree of a bounded size.  The closure of the    *)
(* Recoverable leaf at a position is Repair("fix", position), the position *)
(* being the sequence of child indices that leads to the leaf.             *)
MaxNodes == 6

RECURSIVE TreesOfSize(_, _)
RECURSIVE Forests(_, _, _)
(* the item lists with n nodes in all, the first item being child i        *)
Forests(n, path, i) ==
    IF n = 0 THEN {<<>>}
    ELSE UNION {{<<<<ToString(i), t>>>> \o rest :
                    t \in TreesOfSize(k, Append(path, i)), rest \in Forests(n - k, path, i + 1)} :
                k \in 1..n}

(* the trees with exactly n nodes whose root is at position path           *)
TreesOfSize(n, path) ==
    (IF n = 1 THEN {Fatal("s", "w"), Recoverable("s", "w", Repair("fix", path))} ELSE {})
    \cup {Container(f) : f \in Forests(n - 1, path, 1)}

AssertionTrees == UNION {TreesOfSize(n, <<>>) : n \in 1..MaxNodes}

AssertCall(fn, self) == [fn |-> fn, self |-> self]

InitAssert ==
    /\ call \in {Some(AssertCall(fn, t)) :
                    fn \in {"Assertion::is_recoverable", "Assertion::recover"},
                    t \in AssertionTrees}
    /\ retval = None
    /\ vmspec = None /\ built = None
    /\ MainIdle /\ AllocIdle

DoIsRecoverable ==
    /\ call # None
    /\ Unwrap(call).fn = "Assertion::is_recoverable"
    /\ retval = None
    /\ retval' = Some(is_recoverable(Unwrap(call).self))
    /\ UNCHANGED <<allocVars, call, vmspec, built, mainVars>>

(* recover returns nothing; its effect is the closures it has invoked      *)
DoRecover ==
    /\ call # None
    /\ Unwrap(call).fn = "Assertion::recover"
    /\ retval = None
    /\ retval' = Some(recover(Unwrap(call).self))
    /\ UNCHANGED <<allocVars, call, vmspec, built, mainVars>>

NextAssert ==
    \/ DoIsRecoverable
    \/ DoRecover

SpecAssert == InitAssert /\ [][NextAssert]_vars

AssertDone(fn) == call # None /\ Unwrap(call).fn = fn /\ retval # None

(* the positions of a tree: the root and, below a Container, the           *)
(* positions of every child behind the child's index                       *)
RECURSIVE PositionsOf(_)
PositionsOf(a) ==
    {<<>>} \cup UNION {{<<i>> \o q : q \in PositionsOf(a.items[i][2])} : i \in 1..Len(a.items)}

(* the subtree at a position of the tree                                   *)
RECURSIVE SubtreeAt(_, _)
SubtreeAt(a, p) == IF p = <<>> THEN a ELSE SubtreeAt(a.items[p[1]][2], Tail(p))

LeavesOfKind(a, kind) == {p \in PositionsOf(a) : SubtreeAt(a, p).kind = kind}

(* C23: is_recoverable is false for Fatal, true for Recoverable, and for   *)
(* a Container the conjunction over its children, recursively: true        *)
(* exactly when the tree has no Fatal leaf, an empty Container included.   *)
C23_IsRecoverable ==
    AssertDone("Assertion::is_recoverable") =>
        LET a == Unwrap(call).self
        IN  /\ Unwrap(retval) = (LeavesOfKind(a, "Fatal") = {})
            /\ a.kind = "Fatal" => ~Unwrap(retval)
            /\ a.kind = "Recoverable" => Unwrap(retval)
            /\ a = Container(<<>>) => Unwrap(retval)
            /\ a.kind = "Container" =>
                   Unwrap(retval) = (\A i \in 1..Len(a.items) :
                                         LeavesOfKind(a.items[i][2], "Fatal") = {})

(* a Container with a recoverable first child and a Fatal leaf nested in   *)
(* its second child was judged not recoverable                             *)
C23_Witness ==
    /\ AssertDone("Assertion::is_recoverable")
    /\ LET a == Unwrap(call).self
       IN  /\ a.kind = "Container"
           /\ Len(a.items) = 2
           /\ a.items[1][2].kind = "Recoverable"
           /\ a.items[2][2].kind = "Container"
           /\ LeavesOfKind(a.items[2][2], "Fatal") # {}
    /\ retval = Some(FALSE)


-----------------------------------------------------------------------------
(* Properties of the device arguments.                                     *)

(* the disk argument as stated: every option behind a comma                *)
StatedBlkArg(d) ==
    "virtio-blk," \o d.path
    \o (IF d.direct THEN ",direct" ELSE "")
    \o (IF d.nocache THEN ",nocache" ELSE "")
    \o (IF d.ro THEN ",ro" ELSE "")
    \o (IF d.nodelete THEN ",nodelete" ELSE "")
    \o (IF IsNone(d.logical_sector_size) THEN ""
        ELSE ",sectorsize=" \o ToString(Unwrap(d.logical_sector_size))
             \o (IF IsNone(d.physical_sector_size) THEN ""
                 ELSE "/" \o ToString(Unwrap(d.physical_sector_size))))

(* C24: a virtio-blk device serializes to virtio-blk,<path>, then the      *)
(* enabled flags in the order direct, nocache, ro, nodelete, then, with a  *)
(* logical sector size L, sectorsize=L or sectorsize=L/P, each of them     *)
(* introduced by a comma.                                                  *)
C24_VirtioBlkArgument ==
    FormatDone("VirtioBlk::as_bhyve_arg") =>
        Unwrap(retval) = StatedBlkArg(Unwrap(call).self)

(* the legacy frame buffer argument as stated for a device without port,   *)
(* vga and password                                                        *)
StatedFbufArg(d) ==
    "fbuf,host=" \o d.host \o ",w=" \o ToString(Unwrap(d.w)) \o ",h=" \o ToString(Unwrap(d.h))
    \o ",wait"

(* C25: a Framebuffer with host H, no port, width W, height Ht, no vga,    *)
(* no password and wait = true serializes to fbuf,host=H,w=W,h=Ht,wait.    *)
C25_FramebufferArgument ==
    (/\ FormatDone("Framebuffer::as_bhyve_arg")
     /\ LET d == Unwrap(call).self
        IN  /\ IsNone(d.port) /\ IsSome(d.w) /\ IsSome(d.h)
            /\ IsNone(d.vga) /\ IsNone(d.password) /\ d.wait)
        => Unwrap(retval) = StatedFbufArg(Unwrap(call).self)


-----------------------------------------------------------------------------
(* The PCI slot allocator under sequences of calls (spec/util.rs): a       *)
(* generator is built from a cursor and a reservation list, then any of    *)
(* its three operations is called, MaxCalls times at most.                 *)
MaxCalls == 3

AllocSlots ==
    {PciSlot(0, 0, 0), PciSlot(0, 1, 0), PciSlot(0, 1, 1), PciSlot(0, LastSlot, 0),
     PciSlot(1, 0, 0)}

InitialLists ==
    {<<>>} \cup {<<s>> : s \in AllocSlots}
    \cup {<<PciSlot(0, 0, 0), PciSlot(0, 1, 0)>>, <<PciSlot(0, LastSlot, 0), PciSlot(1, 0, 0)>>}

(* cursors: a fresh bus, the last slot next_slot issues on a bus, and the  *)
(* same on the last bus                                                    *)
AllocCursors == {<<0, 0>>, <<0, LastSlot - 1>>, <<LastBus, LastSlot - 1>>}

CallBuses == {0, 1, LastBus}

CallSlots == {0, 1, LastSlot}

AllocCall(fn, bus, slot, n) == [fn |-> fn, bus |-> bus, slot |-> slot, n |-> n]

CallsMade == IF call = None THEN 0 ELSE Unwrap(call).n

InitAlloc ==
    /\ \E c \in AllocCursors, skip \in InitialLists :
          /\ slot_gen = Some(PciSlotGenerator_build(c[1], c[2], skip))
          /\ issued = Some([initial |-> skip, returned |-> <<>>])
    /\ call = None /\ retval = None
    /\ vmspec = None /\ built = None
    /\ MainIdle

(* one call: the generator after it, the returned Option<PciSlot>          *)
AllocStep(fn, bus, slot, r) ==
    /\ slot_gen' = Some(r.gen)
    /\ issued' = IF IsSome(r.ret)
                 THEN Some([Unwrap(issued) EXCEPT !.returned = Append(@, Unwrap(r.ret))])
                 ELSE issued
    /\ call' = Some(AllocCall(fn, bus, slot, CallsMade + 1))
    /\ retval' = Some(r.ret)
    /\ UNCHANGED <<vmspec, built, mainVars>>

DoNextSlot ==
    /\ slot_gen # None
    /\ CallsMade < MaxCalls
    /\ AllocStep("next_slot", 0, 0, next_slot(Unwrap(slot_gen)))

DoTakeBus ==
    /\ slot_gen # None
    /\ CallsMade < MaxCalls
    /\ \E bus \in CallBuses :
          AllocStep("try_take_specific_bus", bus, 0, try_take_specific_bus(Unwrap(slot_gen), bus))

DoTakeBusSlot ==
    /\ slot_gen # None
    /\ CallsMade < MaxCalls
    /\ \E bus \in CallBuses, slot \in CallSlots :
          AllocStep("try_take_specific_bus_slot", bus, slot,
                    try_take_specific_bus_slot(Unwrap(slot_gen), bus, slot))

NextAlloc ==
    \/ DoNextSlot
    \/ DoTakeBus
    \/ DoTakeBusSlot

SpecAlloc == InitAlloc /\ [][NextAlloc]_vars

Returned == Unwrap(issued).returned

InitialList == Unwrap(issued).initial

(* C26: over any sequence of next_slot, try_take_specific_bus and          *)
(* try_take_specific_bus_slot calls on one generator no triple is returned *)
(* twice, no returned triple is in the initial reservation list, and every *)
(* slot of the reserved set is from that list or was returned before.      *)
C26_AllocatorNeverRepeats ==
    slot_gen # None =>
        /\ NoDuplicates(Returned)
        /\ \A i \in 1..Len(Returned) : ~Contains(InitialList, Returned[i])
        /\ \A i \in 1..Len(Unwrap(slot_gen).skip) :
               \/ Contains(InitialList, Unwrap(slot_gen).skip[i])
               \/ Contains(Returned, Unwrap(slot_gen).skip[i])

(* 0:1 was taken by number ahead of the cursor, which then issued 0:0 and, *)
(* passing the taken slot, 0:2                                             *)
C26_Witness ==
    /\ slot_gen # None
    /\ InitialList = <<PciSlot(1, 0, 0)>>
    /\ Returned = <<PciSlot(0, 1, 0), PciSlot(0, 0, 0), PciSlot(0, 2, 0)>>
    /\ Unwrap(call).fn = "next_slot"

(* C27: try_take_specific_bus_slot(b, s) returns None or exactly the slot  *)
(* (b, s, 0), in every allocator state, the request on the cursor and      *)
(* s = 31 included.                                                        *)
C27_TakeBusSlotReturnsRequest ==
    (call # None /\ Unwrap(call).fn = "try_take_specific_bus_slot") =>
        \/ Unwrap(retval) = None
        \/ Unwrap(retval) = Some(PciSlot(Unwrap(call).bus, Unwrap(call).slot, 0))


-----------------------------------------------------------------------------
(* Properties of the session: the destroy command and the post-start       *)
(* script.                                                                 *)

(* the hypervisor child exists: spawned and not yet waited for             *)
HypervisorRunning == pc \in {"poststart", "wait"}

(* C28: when /dev/vmm/<name> exists and --force is set, the                *)
(* bhyvectl --destroy command has terminated before the hypervisor is      *)
(* spawned: the two never run at the same time.                            *)
C28_DestroyBeforeSpawn ==
    ~(HypervisorRunning /\ host.destroying)

(* C29: the post-start script run in an iteration is the                   *)
(* post_start_script of the iteration's effective spec, the current spec   *)
(* after the target overlay has been consumed.                             *)
C29_PostStartScriptOfEffectiveSpec ==
    [][(pc = "poststart" /\ pc' # pc)
          => NewEvents = IF IsSome(spec.post_start_script)
                         THEN <<Event("post_start_script", Unwrap(spec.post_start_script))>>
                         ELSE <<>>]_vars


(* left-to-right tree order of two leaf positions: the child index at the  *)
(* first place where they differ decides (no leaf lies below another)      *)
RECURSIVE LeftOf(_, _)
LeftOf(p, q) ==
    IF p = <<>> \/ q = <<>> THEN FALSE
    ELSE IF p[1] # q[1] THEN p[1] < q[1]
    ELSE LeftOf(Tail(p), Tail(q))

(* C30: recover on an Assertion tree invokes the repair closure of every   *)
(* Recoverable leaf exactly once, in left-to-right tree order, through     *)
(* nested Containers, and invokes nothing for Fatal leaves.                *)
C30_RecoverInvokesEachRepairOnce ==
    AssertDone("Assertion::recover") =>
        LET a == Unwrap(call).self
            invoked == Unwrap(retval)
            leaves == LeavesOfKind(a, "Recoverable")
        IN  /\ Len(invoked) = Cardinality(leaves)
            /\ \A p \in leaves :
                   \E k \in 1..Len(invoked) :
                       /\ invoked[k] = Unwrap(SubtreeAt(a, p).repair)
                       /\ \A m \in 1..Len(invoked) : invoked[m] = invoked[k] => m = k
            /\ \A k \in 1..Len(invoked) : invoked[k].arg \in leaves
            /\ \A k, m \in 1..Len(invoked) :
                   k < m => LeftOf(invoked[k].arg, invoked[m].arg)
            /\ a.kind = "Fatal" => invoked = <<>>

(* recover ran on a Container holding a Recoverable leaf, then a nested    *)
(* Container with a Fatal and a Recoverable leaf, and invoked two repairs  *)
C30_Witness ==
    /\ AssertDone("Assertion::recover")
    /\ LET a == Unwrap(call).self
       IN  /\ a.kind = "Container"
           /\ Len(a.items) = 2
           /\ a.items[1][2].kind = "Recoverable"
           /\ a.items[2][2].kind = "Container"
           /\ LeavesOfKind(a.items[2][2], "Fatal") # {}
           /\ LeavesOfKind(a.items[2][2], "Recoverable") # {}
           /\ Len(Unwrap(retval)) = 2

====
